---------------------------- MODULE Spec2Model ----------------------------
(***************************************************************************)
(* A model of the mock lab analyzer: the MLLP codec, the HL7 order         *)
(* extraction, the acknowledging listener (lab_analyzer/analyzer.py), the  *)
(* shared order store (shared/state.py) and the review routes              *)
(* (web/routes.py).                                                        *)
(*                                                                         *)
(* Bytes and characters are modelled as one-element strings; the three     *)
(* control bytes of the wire format are written "VT" (0x0B), "FS" (0x1C)   *)
(* and "CR" (0x0D), and "xFF" is a byte that is not valid UTF-8.  A text   *)
(* or a byte string is a sequence of these.                                *)
(***************************************************************************)
EXTENDS Integers, Sequences, FiniteSets, TLC

VARIABLES
    messages,   \* MessageQueue._messages: key -> reference of the record dict
    heap,       \* the record dicts, by reference (a dict outlives its key)
    lock,       \* MessageQueue._lock: 0 when free, else the holding thread
    issued,     \* how many uuid4 values have been drawn so far
    now,        \* the last value datetime.now() returned
    conn,       \* per inbound connection: the position of handle_client
    req,        \* per web request slot: the position of process_message_submit
    flash,      \* the message the routes flashed last, and the id it is about
    thr,        \* per store-client thread: the position inside a store call
    store0,     \* the store when the concurrent store calls began
    last        \* the store call made last by the sequential caller, and its result

vars == <<messages, heap, lock, issued, now, conn, req, flash, thr, store0, last>>

(***************************************************************************)
(* Bounds of the model.                                                    *)
(***************************************************************************)
MaxConns == 2     \* connections the listener alone handles at once
MaxOrders == 1    \* connections accepted while the review routes run
MaxReqs == 2      \* process requests in flight at once
MaxThreads == 2   \* threads calling the store concurrently
MaxIds == 2       \* records added in a run of the store alone
MaxTime == 1      \* the clock's last value
MaxLen == 3       \* bytes of a payload handed to the codec alone

\* Python's None, and an optional value that is set: <<>> and <<x>>.
None == <<>>

Some(x) == <<x>>

(***************************************************************************)
(* Text helpers: Python's str / bytes methods the code uses.               *)
(***************************************************************************)
StartsWith(s, p) == Len(s) >= Len(p) /\ SubSeq(s, 1, Len(p)) = p

EndsWith(s, p) == Len(s) >= Len(p) /\ SubSeq(s, Len(s) - Len(p) + 1, Len(s)) = p

\* The index of the first occurrence of character c in s, 0 when none.
RECURSIVE FindFrom(_, _, _)
FindFrom(s, c, i) ==
    IF i > Len(s) THEN 0
    ELSE IF s[i] = c THEN i
    ELSE FindFrom(s, c, i + 1)

\* str.split(sep) for a one-character separator: "" gives [""].
RECURSIVE SplitOn(_, _)
SplitOn(s, c) ==
    LET i == FindFrom(s, c, 1) IN
    IF i = 0 THEN <<s>>
    ELSE <<SubSeq(s, 1, i - 1)>> \o SplitOn(SubSeq(s, i + 1, Len(s)), c)

\* Characters str.strip() removes: 0x0B, 0x1C and 0x0D are whitespace to Python.
Whitespace == {"VT", "FS", "CR", " "}

RECURSIVE LStrip(_)
LStrip(s) ==
    IF s # <<>> /\ s[1] \in Whitespace THEN LStrip(Tail(s)) ELSE s

RECURSIVE RStrip(_)
RStrip(s) ==
    IF s # <<>> /\ s[Len(s)] \in Whitespace
    THEN RStrip(SubSeq(s, 1, Len(s) - 1)) ELSE s

Strip(s) == LStrip(RStrip(s))

\* bytes.decode('utf-8', errors='ignore'): a byte that is not UTF-8 is dropped.
IsUtf8(b) == b # "xFF"

Decode(data) == SelectSeq(data, IsUtf8)

(***************************************************************************)
(* MLLP codec.                                                             *)
(***************************************************************************)
MLLP_START == <<"VT">>

MLLP_END == <<"FS", "CR">>

\* A codec that strips whatever follows a start byte.
unwrap_mllp_start_only(data) ==
    IF StartsWith(data, MLLP_START) /\ Len(data) >= 3
    THEN SubSeq(data, 2, Len(data) - 2)
    ELSE data

unwrap_mllp(data) ==
    IF StartsWith(data, MLLP_START) /\ EndsWith(data, MLLP_END)
    THEN SubSeq(data, 2, Len(data) - 2)
    ELSE data

\* A codec that ends the block with FS alone.
wrap_mllp_no_cr(message) == MLLP_START \o message \o <<"FS">>

wrap_mllp(message) == MLLP_START \o message \o MLLP_END

(***************************************************************************)
(* The hl7 library's parse, as far as the code reads its result.  A parsed *)
(* message is a sequence of segments, a segment a sequence of field texts; *)
(* Python's seg[i] is Fld(seg, i), and str(seg[i]) is the field's text.    *)
(* In the header segment the separator itself is field 1 and the encoding  *)
(* characters are field 2, so header fields carry their HL7 numbers.       *)
(***************************************************************************)
cMSH == <<"M", "S", "H">>

cOBR == <<"O", "B", "R">>

cBMP == <<"B", "M", "P">>

SegmentFields(text, sep0) ==
    IF StartsWith(text, cMSH) /\ Len(text) >= 4
    THEN LET e == FindFrom(text, text[4], 5)
             seps == IF e = 0 THEN SubSeq(text, 5, Len(text) - 1)
                     ELSE SubSeq(text, 5, e - 1)
             rest == IF e = 0 THEN text ELSE SubSeq(text, e + 1, Len(text))
         IN  <<cMSH, <<text[4]>>, seps>>
             \o (IF rest = <<>> THEN <<>> ELSE SplitOn(rest, text[4]))
    ELSE SplitOn(text, sep0)

NonEmpty(s) == s # <<>>

\* hl7.parse(text): it raises unless the stripped text starts with MSH and a
\* separator; segments are split on carriage return, fields on the separator.
hl7_parse(text) ==
    LET strmsg == Strip(text) IN
    IF ~StartsWith(strmsg, cMSH) \/ Len(strmsg) < 4
    THEN [ok |-> FALSE, segs |-> <<>>]
    ELSE LET lines == SelectSeq(SplitOn(strmsg, "CR"), NonEmpty)
         IN  [ok |-> TRUE,
              segs |-> [i \in 1..Len(lines) |-> SegmentFields(lines[i], strmsg[4])]]

Fld(seg, i) == seg[i + 1]

\* [seg[0][0] for seg in parsed]
SegName(seg) == Fld(seg, 0)

HasSegment(parsed, name) == \E i \in 1..Len(parsed) : SegName(parsed[i]) = name

\* parsed.segment(name): the first segment of that name.
Segment(parsed, name) ==
    parsed[CHOOSE i \in 1..Len(parsed) :
               /\ SegName(parsed[i]) = name
               /\ \A j \in 1..(i - 1) : SegName(parsed[j]) # name]

\* parsed.segment(name) if name in [...] else None
SegmentOrNone(parsed, name) ==
    IF HasSegment(parsed, name) THEN Segment(parsed, name) ELSE None

\* "seg and len(seg) > i [and str(seg[i])]" over a segment that may be None.
Present(seg, i) == seg # None /\ Len(seg) > i

\* A test that takes a field that is there for a field that holds a value.
FilledWhenPresent(seg, i) == Present(seg, i)

Filled(seg, i) == Present(seg, i) /\ Fld(seg, i) # <<>>

(***************************************************************************)
(* Order extraction.  rnd is what the two random.randint calls return, as  *)
(* digit strings; the result is None when the code raises and catches.     *)
(***************************************************************************)
T(str) == <<str>>

OrElse(seg, i, default) == IF Filled(seg, i) THEN Fld(seg, i) ELSE default

\* A field object of the library always holds at least one repetition, so
\* "not obr[4]" is false for every field that is there.
FieldIsEmptyList(field) == Len(SplitOn(field, "~")) = 0

\* test_id = field_components[0] if ... else None
TestIdOrPlaceholder(field_components) ==
    IF Len(field_components) > 0 /\ field_components[1] # <<>>
    THEN field_components[1] ELSE T("UNKNOWN")

TestIdOf(field_components) ==
    IF Len(field_components) > 0 /\ field_components[1] # <<>>
    THEN field_components[1] ELSE None

parse_order_message(message, rnd) ==
    LET p == hl7_parse(Decode(message))
        parsed == p.segs
        msh == SegmentOrNone(parsed, cMSH)
        pid == SegmentOrNone(parsed, <<"P", "I", "D">>)
        pv1 == SegmentOrNone(parsed, <<"P", "V", "1">>)
        orc == SegmentOrNone(parsed, <<"O", "R", "C">>)
        obr == SegmentOrNone(parsed, cOBR)
        field_components == SplitOn(Fld(obr, 4), "^")
        test_id == TestIdOf(field_components)
    IN  IF ~p.ok THEN None
        ELSE IF obr = None \/ Len(obr) <= 4 \/ FieldIsEmptyList(Fld(obr, 4))
        THEN None
        ELSE IF test_id = None THEN None
        ELSE [sending_application |->
                  IF Present(msh, 3) THEN Fld(msh, 3) ELSE T("ORDER_SYSTEM"),
              sending_facility |->
                  IF Present(msh, 4) THEN Fld(msh, 4) ELSE T("HOSPITAL"),
              message_control_id |->
                  IF Present(msh, 10) THEN Fld(msh, 10) ELSE T("MSG") \o rnd.msg,
              patient_id |-> OrElse(pid, 3, T("UNKNOWN")),
              patient_name |-> OrElse(pid, 5, T("DOE^JOHN")),
              patient_dob |-> OrElse(pid, 7, <<>>),
              patient_sex |-> OrElse(pid, 8, T("U")),
              patient_address |-> OrElse(pid, 11, <<>>),
              patient_phone |-> OrElse(pid, 13, <<>>),
              encounter_id |-> OrElse(pv1, 19, <<>>),
              placer_order |->
                  IF Filled(orc, 2) THEN Fld(orc, 2)
                  ELSE IF Filled(obr, 2) THEN Fld(obr, 2)
                  ELSE T("ORDER123"),
              filler_order |->
                  IF Filled(orc, 3) THEN Fld(orc, 3)
                  ELSE IF Filled(obr, 3) THEN Fld(obr, 3)
                  ELSE T("FILLER") \o rnd.filler,
              ordering_provider |->
                  IF Filled(orc, 12) THEN Fld(orc, 12)
                  ELSE IF Filled(obr, 16) THEN Fld(obr, 16)
                  ELSE <<>>,
              test_id |-> test_id,
              test_name |->
                  IF Len(field_components) > 1 THEN field_components[2] ELSE <<>>,
              test_system |->
                  IF Len(field_components) > 2 THEN field_components[3] ELSE <<>>]

(***************************************************************************)
(* The order store (MessageQueue).  A store value is the dict and the      *)
(* record objects it refers to; each operation below is the body the code  *)
(* runs while it holds the lock.                                           *)
(***************************************************************************)
Statuses == {"pending", "processed", "discarded"}

Terminal == {"processed", "discarded"}

Store == [messages |-> messages, heap |-> heap]

\* uuid.uuid4(): a value no earlier call returned.
uuid4_by_count == Cardinality(DOMAIN messages) + 1

\* An id source that hands out the lowest id no record is stored under.
uuid4_lowest_free ==
    CHOOSE n \in 1..(Cardinality(DOMAIN messages) + 1) :
        /\ n \notin DOMAIN messages
        /\ \A m \in 1..(n - 1) : m \in DOMAIN messages

uuid4 == issued + 1

\* datetime.now()
datetime_now == now

NewRecord(message_id, message_data, parsed_data, t) ==
    [id |-> message_id,
     raw_message |-> message_data,
     parsed_data |-> parsed_data,
     status |-> "pending",
     received_at |-> t,
     processed_at |-> None,
     result_message |-> None]

\* self._messages[message_id] = {...}
StoreAdd(st, message_id, message_data, parsed_data, t) ==
    [messages |-> [k \in DOMAIN st.messages \cup {message_id} |->
                       IF k = message_id THEN Len(st.heap) + 1 ELSE st.messages[k]],
     heap |-> Append(st.heap, NewRecord(message_id, message_data, parsed_data, t))]

\* The three assignments of update_status to the record dict.
SetStatus(rec, status) == [rec EXCEPT !.status = status]

StampProcessed(rec, status, t) ==
    IF status \in {"processed", "discarded"}
    THEN [rec EXCEPT !.processed_at = Some(t)]
    ELSE rec

\* A store that tests "result_message is not None".
SetResultWhenGiven(rec, result_message) ==
    IF result_message # None
    THEN [rec EXCEPT !.result_message = result_message]
    ELSE rec

\* "if result_message:" is false for None and for the empty string.
SetResult(rec, result_message) ==
    IF result_message # None /\ result_message[1] # <<>>
    THEN [rec EXCEPT !.result_message = result_message]
    ELSE rec

StoreUpdate(st, message_id, status, result_message, t) ==
    IF message_id \in DOMAIN st.messages
    THEN [st |-> [st EXCEPT !.heap[st.messages[message_id]] =
                      SetResult(StampProcessed(SetStatus(@, status), status, t),
                                result_message)],
          ret |-> TRUE]
    ELSE [st |-> st, ret |-> FALSE]

StoreRemove(st, message_id) ==
    IF message_id \in DOMAIN st.messages
    THEN [st |-> [st EXCEPT !.messages =
                      [k \in DOMAIN st.messages \ {message_id} |-> st.messages[k]]],
          ret |-> TRUE]
    ELSE [st |-> st, ret |-> FALSE]

\* A store that clears the processed records alone.
ToRemoveProcessedOnly(st) ==
    {k \in DOMAIN st.messages : st.heap[st.messages[k]].status = "processed"}

\* to_remove = [k for k, v in ... if v['status'] in ['processed', 'discarded']]
ToRemove(st) ==
    {k \in DOMAIN st.messages : st.heap[st.messages[k]].status \in Terminal}

StoreClear(st) ==
    [st |-> [st EXCEPT !.messages =
                 [k \in DOMAIN st.messages \ ToRemove(st) |-> st.messages[k]]],
     ret |-> Cardinality(ToRemove(st))]

\* A record dict that neither the store nor a request refers to any more is
\* freed, at the latest when the next key is deleted: its place in the heap
\* is left empty.
Collect(hp, msgs, holders) ==
    [i \in DOMAIN hp |->
        IF \/ \E k \in DOMAIN msgs : msgs[k] = i
           \/ \E r \in DOMAIN holders : holders[r].message = i
        THEN hp[i] ELSE None]

\* get_message: self._messages.get(message_id), the record dict itself (its
\* reference), or None (0).
get_message(message_id) ==
    IF message_id \in DOMAIN messages THEN messages[message_id] ELSE 0

\* The record stored under a key.
Rec(k) == heap[messages[k]]

(***************************************************************************)
(* Result composition (LabAnalyzerService).                                *)
(***************************************************************************)
\* The keys of test_fields and the ids of each key's observation fields.
test_fields ==
    [k \in {<<"L", "P", "9", "9", "2", "3", "7", "-", "7">>, cBMP,
            <<"G", "L", "U", "C", "O", "S", "E">>,
            <<"1", "5", "5", "4", "-", "5">>,
            <<"2", "6", "6", "0", "4", "0", "0", "7">>} |->
        CASE k = <<"L", "P", "9", "9", "2", "3", "7", "-", "7">> ->
                 <<"717-9", "LP15101-6", "LP393833-1", "LP7536-8">>
          [] k = cBMP -> <<"2345-7", "3094-0", "2160-0", "2951-2", "2823-3">>
          [] k = <<"G", "L", "U", "C", "O", "S", "E">> -> <<"1554-5">>
          [] k = <<"1", "5", "5", "4", "-", "5">> -> <<"1554-5">>
          [] OTHER -> <<"LP32067-8", "LP15101-6", "LA12896-9", "LP7631-7">>]

\* A lookup that returns the first entry of the table alone.
get_observation_fields_first(test_id) ==
    IF Strip(test_id) \in DOMAIN test_fields
    THEN SubSeq(test_fields[Strip(test_id)], 1, 1) ELSE <<>>

\* test_fields.get(test_id.strip(), [])
get_observation_fields(test_id) ==
    IF Strip(test_id) \in DOMAIN test_fields THEN test_fields[Strip(test_id)] ELSE <<>>

\* The name of an observation field; one name of the table holds the field
\* separator.
FieldName(id) ==
    IF id = "LP393833-1"
    THEN <<"Leukocyte phosphatase ", "|", " White blood cells ", "|",
           " Hematology and Cell counts">>
    ELSE <<"name">>

\* str.lower(), character by character.
UpperCase ==
    <<"A", "B", "C", "D", "E", "F", "G", "H", "I", "J", "K", "L", "M",
      "N", "O", "P", "Q", "R", "S", "T", "U", "V", "W", "X", "Y", "Z">>

LowerCase ==
    <<"a", "b", "c", "d", "e", "f", "g", "h", "i", "j", "k", "l", "m",
      "n", "o", "p", "q", "r", "s", "t", "u", "v", "w", "x", "y", "z">>

LowerChar(c) ==
    IF \E i \in 1..26 : UpperCase[i] = c
    THEN LowerCase[CHOOSE i \in 1..26 : UpperCase[i] = c]
    ELSE c

\* A conversion that leaves the case of every character as it is.
LowerKeepsCase(s) == s

Lower(s) == [i \in 1..Len(s) |-> LowerChar(s[i])]

\* The abnormal flag of an interpretation, which is lower-cased first.
AbnormalFlag(interpretation) ==
    LET _interpretation == Lower(interpretation) IN
    CASE _interpretation \in {<<"n", "o", "r", "m", "a", "l">>, <<"n">>} -> "N"
      [] _interpretation \in {<<"a", "b", "n", "o", "r", "m", "a", "l">>, <<"a">>}
             -> "A"
      [] _interpretation \in {<<"h", "i", "g", "h">>, <<"h">>} -> "H"
      [] _interpretation \in {<<"l", "o", "w">>, <<"l">>} -> "L"
      [] _interpretation \in
             {<<"c", "r", "i", "t", "i", "c", "a", "l">>,
              <<"c", "r", "i", "t", "i", "c", "a", "l", " ", "h", "i", "g", "h">>,
              <<"h", "h">>} -> "HH"
      [] _interpretation \in
             {<<"c", "r", "i", "t", "i", "c", "a", "l", " ", "l", "o", "w">>,
              <<"l", "l">>} -> "LL"
      [] OTHER -> "N"

\* datetime.now().strftime('%Y%m%d%H%M%S'), one value for a whole message.
timestamp == T("TS")

\* format(value, '.2f') of a whole number.
Fmt2f(value) == <<ToString(value), ".00">>

\* One observation segment, as the f-string writes it.
ObxLine(idx, id, value, abnormal_flag) ==
    <<"OBX">> \o T("|") \o <<ToString(idx)>> \o T("|NM|") \o <<id>> \o T("^")
    \o FieldName(id) \o T("^http://loinc.org||") \o Fmt2f(value) \o T("|")
    \o T("unit") \o T("|") \o T("reference") \o T("|") \o <<abnormal_flag>>
    \o T("|||F|||") \o timestamp \o T("||||||")

\* A join that ends every part, the last one too, with the separator.
RECURSIVE JoinTerminated(_, _)
JoinTerminated(parts, sep) ==
    IF parts = <<>> THEN <<>>
    ELSE Head(parts) \o <<sep>> \o JoinTerminated(Tail(parts), sep)

\* sep.join(parts)
RECURSIVE Join(_, _)
Join(parts, sep) ==
    IF parts = <<>> THEN <<>>
    ELSE IF Len(parts) = 1 THEN parts[1]
    ELSE Head(parts) \o <<sep>> \o Join(Tail(parts), sep)

\* The composed message.  observation_values maps some field ids to values
\* and observation_interpretations some field ids to interpretations; None
\* for the latter is the empty mapping.
create_result_message(parsed_data, observation_values, observation_interpretations) ==
    LET msh == <<"MSH">> \o T("|^~\\&|LAB_ANALYZER|DUMMY_LAB|")
               \o parsed_data.sending_application \o T("|")
               \o parsed_data.sending_facility \o T("|") \o timestamp
               \o T("||ORU^R01|") \o parsed_data.message_control_id
               \o T("_RESULT|P|2.5")
        pid == <<"PID">> \o T("|1||") \o parsed_data.patient_id \o T("||")
               \o parsed_data.patient_name \o T("||") \o parsed_data.patient_dob
               \o T("|") \o parsed_data.patient_sex \o T("|||")
               \o parsed_data.patient_address \o T("||")
               \o parsed_data.patient_phone \o T("|||||||")
        pv1 == <<"PV1">> \o T("|1|||||||||||||||||") \o parsed_data.encounter_id
               \o T("|||||||||||||||||||||||||||||||||")
        orc == <<"ORC">> \o T("|RE|") \o parsed_data.placer_order \o T("|")
               \o parsed_data.filler_order \o T("||CM||||") \o timestamp
               \o T("|||") \o parsed_data.ordering_provider
        test_system == parsed_data.test_system
        obr == <<"OBR">> \o T("|1|") \o parsed_data.placer_order \o T("|")
               \o parsed_data.filler_order \o T("|") \o parsed_data.test_id
               \o T("^") \o parsed_data.test_name
               \o (IF test_system # <<>> THEN T("^") \o test_system ELSE <<>>)
               \o T("|||") \o timestamp \o T("|||||||") \o timestamp \o T("|||")
               \o parsed_data.ordering_provider \o T("||||||||F")
        obs_fields == get_observation_fields(parsed_data.test_id)
        obx(idx) ==
            LET id == obs_fields[idx]
                value == IF id \in DOMAIN observation_values
                         THEN observation_values[id] ELSE 0
                interpretation ==
                    IF id \in DOMAIN observation_interpretations
                    THEN observation_interpretations[id]
                    ELSE <<"N", "o", "r", "m", "a", "l">>
            IN  ObxLine(idx, id, value, AbnormalFlag(interpretation))
        segments ==
            <<msh, pid>>
            \o (IF parsed_data.encounter_id # <<>> THEN <<pv1>> ELSE <<>>)
            \o <<orc, obr>>
            \o [idx \in 1..Len(obs_fields) |-> obx(idx)]
    IN  Join(segments, "CR")

\* How one send to the downstream receiver may end.
SendOutcomes == {"ack", "eof", "timeout", "refused"}

\* send_result: True unless an exception was raised.
send_result(outcome) == outcome \in {"ack", "eof"}

(***************************************************************************)
(* Inbound data: what one read of a connection may return.                 *)
(***************************************************************************)
\* MSH|^~\&|A|F|||||O^R|7
HeaderLine ==
    cMSH \o <<"|", "^", "~", "\\", "&", "|", "A", "|", "F", "|", "|", "|", "|", "|",
              "O", "^", "R", "|", "7">>

\* MSH..., then OBR|1|P|F followed by the given text
Order(tail) ==
    HeaderLine \o <<"CR">> \o cOBR \o <<"|", "1", "|", "P", "|", "F">> \o tail

OrderBMP == wrap_mllp(Order(<<"|">> \o cBMP \o <<"^", "n">>))

OrderUnknownTest == wrap_mllp(Order(<<"|", "X">>))

OrderNoOBR == wrap_mllp(HeaderLine \o <<"CR", "P", "I", "D", "|", "1">>)

OrderShortOBR == wrap_mllp(Order(<<>>))

OrderEmptyField4 == wrap_mllp(Order(<<"|">>))

OrderEmptyTestId == wrap_mllp(Order(<<"|", "^", "n">>))

Garbage == <<"x", "xFF">>

Inputs ==
    {<<>>, OrderBMP, OrderUnknownTest, OrderNoOBR, OrderShortOBR,
     OrderEmptyField4, OrderEmptyTestId, Garbage}

\* What random.randint may return, as digits.
RandInts == {<<"1">>, <<"2">>}

Rnds == [msg : RandInts, filler : RandInts]

(***************************************************************************)
(* The store called by one caller, one call after another, with any        *)
(* arguments.                                                              *)
(***************************************************************************)
Ids == 1..MaxIds

SampleParsed ==
    parse_order_message(unwrap_mllp(OrderBMP), [msg |-> <<"1">>, filler |-> <<"1">>])

ResultArgs == {None, Some(<<>>), Some(<<"R">>)}

StoreUnchanged == UNCHANGED <<lock, conn, req, flash, thr, store0>>

add_message(message_data, parsed_data) ==
    /\ LET st == StoreAdd(Store, uuid4, message_data, parsed_data, datetime_now)
       IN  messages' = st.messages /\ heap' = st.heap
    /\ issued' = issued + 1
    /\ UNCHANGED now

update_status(message_id, status, result_message) ==
    /\ LET r == StoreUpdate(Store, message_id, status, result_message, datetime_now)
       IN  messages' = r.st.messages /\ heap' = r.st.heap
    /\ UNCHANGED <<issued, now>>

remove_message(message_id) ==
    /\ LET r == StoreRemove(Store, message_id)
       IN  /\ messages' = r.st.messages
           /\ heap' = Collect(r.st.heap, r.st.messages, req)
    /\ UNCHANGED <<issued, now>>

clear_processed ==
    /\ LET r == StoreClear(Store)
       IN  /\ messages' = r.st.messages
           /\ heap' = Collect(r.st.heap, r.st.messages, req)
    /\ UNCHANGED <<issued, now>>

\* Time passes between two calls.
Tick ==
    /\ now < MaxTime
    /\ now' = now + 1
    /\ UNCHANGED <<messages, heap, issued, last>>
    /\ UNCHANGED <<lock, conn, req, flash, thr, store0>>

CallAdd ==
    /\ issued < MaxIds
    /\ add_message(Decode(unwrap_mllp(OrderBMP)), SampleParsed)
    /\ last' = [op |-> "add_message", id |-> uuid4, ret |-> uuid4]
    /\ StoreUnchanged

CallUpdate ==
    /\ \E id \in Ids, status \in Statuses, rm \in ResultArgs :
           /\ update_status(id, status, rm)
           /\ last' = [op |-> "update_status", id |-> id,
                       ret |-> IF StoreUpdate(Store, id, status, rm, now).ret
                               THEN 1 ELSE 0]
    /\ StoreUnchanged

CallRemove ==
    /\ \E id \in Ids :
           /\ remove_message(id)
           /\ last' = [op |-> "remove_message", id |-> id,
                       ret |-> IF StoreRemove(Store, id).ret THEN 1 ELSE 0]
    /\ StoreUnchanged

CallClear ==
    /\ clear_processed
    /\ last' = [op |-> "clear_processed", id |-> 0, ret |-> StoreClear(Store).ret]
    /\ StoreUnchanged

NoCall == [op |-> "none", id |-> 0, ret |-> 0]

InitStore ==
    /\ messages = <<>>
    /\ heap = <<>>
    /\ lock = 0
    /\ issued = 0
    /\ now = 0
    /\ conn = <<>>
    /\ req = <<>>
    /\ flash = <<"none", 0>>
    /\ thr = <<>>
    /\ store0 = [messages |-> <<>>, heap |-> <<>>]
    /\ last = NoCall

NextStore == CallAdd \/ CallUpdate \/ CallRemove \/ CallClear \/ Tick

SpecStore == InitStore /\ [][NextStore]_vars

\* The store called with add_message and update_status alone, last holding
\* every argument of the update_status call.  add_message stores what it is
\* given without reading it: a short text and a one-field dict.
ShortParsed == [test_id |-> cBMP]

CallAddShort ==
    /\ issued < MaxIds
    /\ add_message(<<"m">>, ShortParsed)
    /\ last' = [op |-> "add_message", id |-> uuid4, ret |-> uuid4]
    /\ StoreUnchanged

CallUpdateArgs ==
    /\ \E id \in Ids, status \in Statuses, rm \in ResultArgs :
           /\ update_status(id, status, rm)
           /\ last' = [op |-> "update_status", id |-> id,
                       ret |-> IF StoreUpdate(Store, id, status, rm, now).ret
                               THEN 1 ELSE 0,
                       status |-> status, result_message |-> rm]
    /\ StoreUnchanged

NextUpdate == CallAddShort \/ CallUpdateArgs \/ Tick

SpecUpdate == InitStore /\ [][NextUpdate]_vars

(***************************************************************************)
(* The codec and the sender called on their own, with any argument: last   *)
(* holds the call, its argument and what it returned.                      *)
(***************************************************************************)
Bytes == {"VT", "FS", "CR", "x"}

Payloads == UNION {[1..n -> Bytes] : n \in 0..MaxLen}

Frames == Payloads \cup {wrap_mllp(p) : p \in Payloads}

CodecUnchanged ==
    UNCHANGED <<messages, heap, lock, issued, now, conn, req, flash, thr, store0>>

CallWrap ==
    /\ \E p \in Payloads :
           last' = [op |-> "wrap_mllp", arg |-> p, ret |-> wrap_mllp(p)]
    /\ CodecUnchanged

CallUnwrap ==
    /\ \E d \in Frames :
           last' = [op |-> "unwrap_mllp", arg |-> d, ret |-> unwrap_mllp(d)]
    /\ CodecUnchanged

CallSend ==
    /\ \E outcome \in SendOutcomes :
           last' = [op |-> "send_result", arg |-> outcome,
                    ret |-> send_result(outcome)]
    /\ CodecUnchanged

NextCodec == CallWrap \/ CallUnwrap \/ CallSend

SpecCodec == InitStore /\ [][NextCodec]_vars

(***************************************************************************)
(* send_result, statement by statement.  last holds the call: its message, *)
(* the statement it is at, the connections it has opened, what it has      *)
(* written to them, the failure it met and its return value.               *)
(***************************************************************************)
SendFailures == {"refused", "reset", "timeout"}

SendBegin ==
    /\ last = NoCall
    /\ \E message \in Payloads :
           last' = [op |-> "send_result", arg |-> message, pc |-> "connect",
                    attempts |-> 0, written |-> <<>>, event |-> "none",
                    ret |-> None]
    /\ CodecUnchanged

\* reader, writer = await asyncio.open_connection(...)
SendConnect ==
    /\ last.op = "send_result" /\ last.pc = "connect"
    /\ \E ok \in BOOLEAN :
           last' = IF ok
                   THEN [last EXCEPT !.pc = "write", !.attempts = @ + 1]
                   ELSE [last EXCEPT !.pc = "done", !.attempts = @ + 1,
                                     !.event = "refused", !.ret = Some(FALSE)]
    /\ CodecUnchanged

\* writer.write(self.wrap_mllp(message)); await writer.drain()
SendWrite ==
    /\ last.op = "send_result" /\ last.pc = "write"
    /\ \E ok \in BOOLEAN :
           last' = IF ok
                   THEN [last EXCEPT !.pc = "read",
                                     !.written = Append(@, wrap_mllp(last.arg))]
                   ELSE [last EXCEPT !.pc = "done",
                                     !.written = Append(@, wrap_mllp(last.arg)),
                                     !.event = "reset", !.ret = Some(FALSE)]
    /\ CodecUnchanged

\* A read that goes back to connecting when it times out.
SendReadRetries ==
    /\ last.op = "send_result" /\ last.pc = "read"
    /\ last.attempts < 3
    /\ \E outcome \in {"ack", "eof", "timeout", "reset"} :
           last' = CASE outcome \in {"ack", "eof"} -> [last EXCEPT !.pc = "close"]
                     [] outcome = "timeout" ->
                            [last EXCEPT !.pc = "connect", !.event = "timeout"]
                     [] OTHER ->
                            [last EXCEPT !.pc = "done", !.event = outcome,
                                         !.ret = Some(FALSE)]
    /\ CodecUnchanged

\* ack = await asyncio.wait_for(reader.read(1024), timeout=5.0)
SendRead ==
    /\ last.op = "send_result" /\ last.pc = "read"
    /\ \E outcome \in {"ack", "eof", "timeout", "reset"} :
           last' = IF send_result(outcome)
                   THEN [last EXCEPT !.pc = "close"]
                   ELSE [last EXCEPT !.pc = "done", !.event = outcome,
                                     !.ret = Some(FALSE)]
    /\ CodecUnchanged

\* writer.close(); await writer.wait_closed(); return True
SendClose ==
    /\ last.op = "send_result" /\ last.pc = "close"
    /\ \E ok \in BOOLEAN :
           last' = IF ok
                   THEN [last EXCEPT !.pc = "done", !.ret = Some(TRUE)]
                   ELSE [last EXCEPT !.pc = "done", !.event = "reset",
                                     !.ret = Some(FALSE)]
    /\ CodecUnchanged

NextSend == SendBegin \/ SendConnect \/ SendWrite \/ SendRead \/ SendClose

SpecSend == InitStore /\ [][NextSend]_vars

(***************************************************************************)
(* The store called by several threads at once.  Each thread makes one     *)
(* call; a call is a sequence of steps, one per statement of the method,   *)
(* and the statements inside "with self._lock" run with the lock held.     *)
(* A statement that subscripts the dict with a missing key raises          *)
(* KeyError, which leaves the with block and releases the lock.            *)
(***************************************************************************)
Threads == 1..MaxThreads

Calls ==
    [op : {"add_message"}, id : {0}, status : {"pending"}]
    \cup [op : {"update_status"}, id : {1, 2}, status : Statuses]
    \cup [op : {"remove_message"}, id : {1, 2}, status : {"pending"}]
    \cup [op : {"clear_processed"}, id : {0}, status : {"pending"}]

NoRet == [kind |-> "none", val |-> 0]

BoolRet(b) == [kind |-> "bool", val |-> IF b THEN 1 ELSE 0]

NewThread ==
    [pc |-> "idle", call |-> [op |-> "none", id |-> 0, status |-> "pending"],
     message_id |-> 0, to_remove |-> <<>>, ret |-> NoRet]

ThreadsUnchanged == UNCHANGED <<conn, req, flash, store0, last, now>>

\* The keys of a set in the order the dict holds them (keys are inserted in
\* the order of their records' references).
RECURSIVE KeysInOrder(_, _)
KeysInOrder(ks, msgs) ==
    IF ks = {} THEN <<>>
    ELSE LET k == CHOOSE x \in ks : \A y \in ks : msgs[x] <= msgs[y]
         IN  <<k>> \o KeysInOrder(ks \ {k}, msgs)

\* The thread starts its call; add_message draws its uuid before the lock.
Begin(t, call) ==
    /\ thr[t].pc = "idle"
    /\ IF call.op = "add_message"
       THEN /\ thr' = [thr EXCEPT ![t].pc = "lock", ![t].call = call,
                                  ![t].message_id = uuid4]
            /\ issued' = issued + 1
       ELSE /\ thr' = [thr EXCEPT ![t].pc = "lock", ![t].call = call]
            /\ UNCHANGED issued
    /\ UNCHANGED <<messages, heap, lock>>
    /\ ThreadsUnchanged

\* with self._lock: entered only when no thread holds the lock.
AcquireWithoutWaiting(t) ==
    /\ thr[t].pc = "lock"
    /\ lock' = t
    /\ thr' = [thr EXCEPT ![t].pc = "body"]
    /\ UNCHANGED <<messages, heap, issued>>
    /\ ThreadsUnchanged

Acquire(t) ==
    /\ thr[t].pc = "lock"
    /\ lock = 0
    /\ lock' = t
    /\ thr' = [thr EXCEPT ![t].pc = "body"]
    /\ UNCHANGED <<messages, heap, issued>>
    /\ ThreadsUnchanged

\* The with block is left, normally or by an exception: the lock is released.
Release(t) ==
    /\ thr[t].pc = "unlock"
    /\ lock' = 0
    /\ thr' = [thr EXCEPT ![t].pc = "done"]
    /\ UNCHANGED <<messages, heap, issued>>
    /\ ThreadsUnchanged

Raise(t) == [thr EXCEPT ![t].pc = "unlock", ![t].ret = [kind |-> "KeyError", val |-> 0]]

Return(t, ret) == [thr EXCEPT ![t].pc = "unlock", ![t].ret = ret]

\* add_message: self._messages[message_id] = {...}
AddInsert(t) ==
    /\ thr[t].pc = "body" /\ thr[t].call.op = "add_message"
    /\ LET st == StoreAdd(Store, thr[t].message_id, Decode(unwrap_mllp(OrderBMP)),
                          SampleParsed, datetime_now)
       IN  messages' = st.messages /\ heap' = st.heap
    /\ thr' = Return(t, [kind |-> "id", val |-> thr[t].message_id])
    /\ UNCHANGED <<lock, issued>>
    /\ ThreadsUnchanged

\* update_status: if message_id in self._messages
UpdateCheck(t) ==
    /\ thr[t].pc = "body" /\ thr[t].call.op = "update_status"
    /\ thr' = IF thr[t].call.id \in DOMAIN messages
              THEN [thr EXCEPT ![t].pc = "status"]
              ELSE Return(t, BoolRet(FALSE))
    /\ UNCHANGED <<messages, heap, lock, issued>>
    /\ ThreadsUnchanged

\* self._messages[message_id]['status'] = status
UpdateStatus(t) ==
    /\ thr[t].pc = "status"
    /\ IF thr[t].call.id \in DOMAIN messages
       THEN /\ heap' = [heap EXCEPT ![messages[thr[t].call.id]] =
                            SetStatus(@, thr[t].call.status)]
            /\ thr' = [thr EXCEPT ![t].pc = "stamp"]
       ELSE /\ thr' = Raise(t)
            /\ UNCHANGED heap
    /\ UNCHANGED <<messages, lock, issued>>
    /\ ThreadsUnchanged

\* if status in [...]: self._messages[message_id]['processed_at'] = ...; the
\* call passes no result_message, so "if result_message" is false.
UpdateStamp(t) ==
    /\ thr[t].pc = "stamp"
    /\ IF thr[t].call.id \in DOMAIN messages
       THEN /\ heap' = [heap EXCEPT ![messages[thr[t].call.id]] =
                            SetResult(StampProcessed(@, thr[t].call.status,
                                                     datetime_now), None)]
            /\ thr' = Return(t, BoolRet(TRUE))
       ELSE /\ thr' = IF thr[t].call.status \in Terminal
                      THEN Raise(t) ELSE Return(t, BoolRet(TRUE))
            /\ UNCHANGED heap
    /\ UNCHANGED <<messages, lock, issued>>
    /\ ThreadsUnchanged

\* remove_message: if message_id in self._messages
RemoveCheck(t) ==
    /\ thr[t].pc = "body" /\ thr[t].call.op = "remove_message"
    /\ thr' = IF thr[t].call.id \in DOMAIN messages
              THEN [thr EXCEPT ![t].pc = "del"]
              ELSE Return(t, BoolRet(FALSE))
    /\ UNCHANGED <<messages, heap, lock, issued>>
    /\ ThreadsUnchanged

\* del self._messages[message_id]
RemoveDel(t) ==
    /\ thr[t].pc = "del"
    /\ IF thr[t].call.id \in DOMAIN messages
       THEN /\ LET r == StoreRemove(Store, thr[t].call.id)
               IN  /\ messages' = r.st.messages
                   /\ heap' = Collect(r.st.heap, r.st.messages, req)
            /\ thr' = Return(t, BoolRet(TRUE))
       ELSE /\ thr' = Raise(t)
            /\ UNCHANGED <<messages, heap>>
    /\ UNCHANGED <<lock, issued>>
    /\ ThreadsUnchanged

\* clear_processed: to_remove = [...]
ClearScan(t) ==
    /\ thr[t].pc = "body" /\ thr[t].call.op = "clear_processed"
    /\ thr' = [thr EXCEPT ![t].pc = "clear",
                          ![t].to_remove = KeysInOrder(ToRemove(Store), messages),
                          ![t].ret = [kind |-> "count",
                                      val |-> Cardinality(ToRemove(Store))]]
    /\ UNCHANGED <<messages, heap, lock, issued>>
    /\ ThreadsUnchanged

\* for key in to_remove: del self._messages[key]; then return len(to_remove)
ClearDel(t) ==
    /\ thr[t].pc = "clear"
    /\ IF thr[t].to_remove = <<>>
       THEN /\ thr' = [thr EXCEPT ![t].pc = "unlock"]
            /\ UNCHANGED <<messages, heap>>
       ELSE IF Head(thr[t].to_remove) \in DOMAIN messages
       THEN /\ LET r == StoreRemove(Store, Head(thr[t].to_remove))
               IN  /\ messages' = r.st.messages
                   /\ heap' = Collect(r.st.heap, r.st.messages, req)
            /\ thr' = [thr EXCEPT ![t].to_remove = Tail(@)]
       ELSE /\ thr' = Raise(t)
            /\ UNCHANGED <<messages, heap>>
    /\ UNCHANGED <<lock, issued>>
    /\ ThreadsUnchanged

\* The store holds one record, pending or processed, when the calls begin.
InitConc ==
    /\ \E status \in {"pending", "processed"} :
           LET st == StoreAdd([messages |-> <<>>, heap |-> <<>>], 1,
                              Decode(unwrap_mllp(OrderBMP)), SampleParsed, 0)
               st1 == IF status = "pending" THEN st
                      ELSE StoreUpdate(st, 1, status, None, 0).st
           IN  /\ messages = st1.messages
               /\ heap = st1.heap
               /\ store0 = st1
    /\ lock = 0
    /\ issued = 1
    /\ now = 0
    /\ conn = <<>>
    /\ req = <<>>
    /\ flash = <<"none", 0>>
    /\ thr = [t \in Threads |-> NewThread]
    /\ last = NoCall

NextConc ==
    \/ \E t \in Threads, call \in Calls : Begin(t, call)
    \/ \E t \in Threads : Acquire(t)
    \/ \E t \in Threads : Release(t)
    \/ \E t \in Threads : AddInsert(t)
    \/ \E t \in Threads : UpdateCheck(t)
    \/ \E t \in Threads : UpdateStatus(t)
    \/ \E t \in Threads : UpdateStamp(t)
    \/ \E t \in Threads : RemoveCheck(t)
    \/ \E t \in Threads : RemoveDel(t)
    \/ \E t \in Threads : ClearScan(t)
    \/ \E t \in Threads : ClearDel(t)

SpecConc == InitConc /\ [][NextConc]_vars

(***************************************************************************)
(* The inbound listener: handle_client, one step per stretch of code       *)
(* between two awaits (the extraction and the insertion, which follow the  *)
(* flush without an await, are a step of their own).                       *)
(***************************************************************************)
NewConn ==
    [pc |-> "accepted", data |-> <<>>, written |-> <<>>, flushed |-> FALSE,
     parsed |-> "none", key |-> 0]

\* A header that never echoes the inbound control id.
AckHeaderFreshId(message, ctl) ==
    LET p == hl7_parse(Decode(message))
        msh == Segment(p.segs, cMSH)
        msg_type == IF Present(msh, 9) THEN Fld(msh, 9) ELSE T("ACK")
    IN  IF ~p.ok
        THEN [base_type |-> T("O01"), msg_control_id |-> ctl]
        ELSE [base_type |-> IF FindFrom(msg_type, "^", 1) # 0
                            THEN SplitOn(msg_type, "^")[2] ELSE T("O01"),
              msg_control_id |-> ctl]

\* The message type and control id of the ACK; ctl is what random.randint
\* returns for the fallback control id.
AckHeader(message, ctl) ==
    LET p == hl7_parse(Decode(message))
        msh == Segment(p.segs, cMSH)
        msg_type == IF Present(msh, 9) THEN Fld(msh, 9) ELSE T("ACK")
    IN  IF ~p.ok
        THEN [base_type |-> T("O01"), msg_control_id |-> ctl]
        ELSE [base_type |-> IF FindFrom(msg_type, "^", 1) # 0
                            THEN SplitOn(msg_type, "^")[2] ELSE T("O01"),
              msg_control_id |-> IF Present(msh, 10) THEN Fld(msh, 10) ELSE ctl]

\* ack_message; "TS" stands for the timestamp's fourteen digits and "RND" for
\* the five random digits of the ACK's own id, which nothing reads.
AckMessage(h) ==
    T("MSH|^~\\&|LAB_ANALYZER|DUMMY_LAB|ORDER_SYSTEM|HOSPITAL|") \o T("TS")
    \o T("||ACK^") \o h.base_type \o T("|ACK") \o T("RND") \o T("|P|2.5")
    \o <<"CR">> \o T("MSA|AA|") \o h.msg_control_id

ListenerUnchanged == UNCHANGED <<lock, req, flash, thr, store0, last>>

\* A listener whose header parse is not guarded: a message that does not
\* parse ends the handler before the ACK is written.
HandleReadHeaderErrorEscapes(c, data) ==
    /\ conn[c].pc = "accepted"
    /\ \E ctl \in RandInts :
           conn' = [conn EXCEPT ![c] =
               IF data = <<>>
               THEN [@ EXCEPT !.pc = "closing"]
               ELSE IF ~hl7_parse(Decode(unwrap_mllp(data))).ok
               THEN [@ EXCEPT !.pc = "closing", !.data = data]
               ELSE [@ EXCEPT !.pc = "draining", !.data = data,
                        !.written = Append(@, wrap_mllp(
                            AckMessage(AckHeader(unwrap_mllp(data), ctl))))]]
    /\ UNCHANGED <<messages, heap, issued, now>>
    /\ ListenerUnchanged

\* A listener without the "if not data" return: an empty read is answered
\* like any other.
HandleReadAcksEmpty(c, data) ==
    /\ conn[c].pc = "accepted"
    /\ \E ctl \in RandInts :
           conn' = [conn EXCEPT ![c] =
               [@ EXCEPT !.pc = "draining", !.data = data,
                         !.written = Append(@, wrap_mllp(
                             AckMessage(AckHeader(unwrap_mllp(data), ctl))))]]
    /\ UNCHANGED <<messages, heap, issued, now>>
    /\ ListenerUnchanged

\* data = await reader.read(4096), then everything up to writer.write(ack).
HandleRead(c, data) ==
    /\ conn[c].pc = "accepted"
    /\ \E ctl \in RandInts :
           conn' = [conn EXCEPT ![c] =
               IF data = <<>>
               THEN [@ EXCEPT !.pc = "closing"]
               ELSE [@ EXCEPT !.pc = "draining", !.data = data,
                        !.written = Append(@, wrap_mllp(
                            AckMessage(AckHeader(unwrap_mllp(data), ctl))))]]
    /\ UNCHANGED <<messages, heap, issued, now>>
    /\ ListenerUnchanged

\* A listener that goes on to store the order when the flush has failed.
DrainErrorSwallowed(c, ok) ==
    /\ conn[c].pc = "draining"
    /\ conn' = [conn EXCEPT ![c] =
           IF ok THEN [@ EXCEPT !.pc = "storing", !.flushed = TRUE]
           ELSE [@ EXCEPT !.pc = "storing"]]
    /\ UNCHANGED <<messages, heap, issued, now>>
    /\ ListenerUnchanged

\* await writer.drain() returns, or raises (the peer is gone).
Drain(c, ok) ==
    /\ conn[c].pc = "draining"
    /\ conn' = [conn EXCEPT ![c] =
           IF ok THEN [@ EXCEPT !.pc = "storing", !.flushed = TRUE]
           ELSE [@ EXCEPT !.pc = "closing"]]
    /\ UNCHANGED <<messages, heap, issued, now>>
    /\ ListenerUnchanged

\* A listener without the "if parsed_data" test: whatever extraction
\* returned is stored.
StoreOrderUnchecked(c) ==
    /\ conn[c].pc = "storing"
    /\ \E rnd \in Rnds :
           LET message == unwrap_mllp(conn[c].data)
               parsed_data == parse_order_message(message, rnd)
           IN  /\ add_message(Decode(message), parsed_data)
               /\ conn' = [conn EXCEPT ![c].pc = "closing",
                                       ![c].parsed = IF parsed_data # None
                                                     THEN "ok" ELSE "fail",
                                       ![c].key = uuid4]
    /\ ListenerUnchanged

\* A listener that a failed extraction stops: the handlers still running
\* are dropped where they are.
StoreOrderFailureStopsListener(c) ==
    /\ conn[c].pc = "storing"
    /\ \E rnd \in Rnds :
           LET message == unwrap_mllp(conn[c].data)
               parsed_data == parse_order_message(message, rnd)
           IN  IF parsed_data # None
               THEN /\ add_message(Decode(message), parsed_data)
                    /\ conn' = [conn EXCEPT ![c].pc = "closing",
                                            ![c].parsed = "ok",
                                            ![c].key = uuid4]
               ELSE /\ conn' = [d \in DOMAIN conn |->
                                   IF d = c
                                   THEN [conn[d] EXCEPT !.pc = "closing",
                                                        !.parsed = "fail"]
                                   ELSE [conn[d] EXCEPT !.pc = "closed"]]
                    /\ UNCHANGED <<messages, heap, issued, now>>
    /\ ListenerUnchanged

\* parse_order_message and add_message, then writer.close() in finally.
StoreOrder(c) ==
    /\ conn[c].pc = "storing"
    /\ \E rnd \in Rnds :
           LET message == unwrap_mllp(conn[c].data)
               parsed_data == parse_order_message(message, rnd)
           IN  IF parsed_data # None
               THEN /\ add_message(Decode(message), parsed_data)
                    /\ conn' = [conn EXCEPT ![c].pc = "closing",
                                            ![c].parsed = "ok",
                                            ![c].key = uuid4]
               ELSE /\ conn' = [conn EXCEPT ![c].pc = "closing",
                                            ![c].parsed = "fail"]
                    /\ UNCHANGED <<messages, heap, issued, now>>
    /\ ListenerUnchanged

\* A listener that closes at the end of the try block, not in finally.
WaitClosedAfterStore(c) ==
    /\ conn[c].pc = "closing"
    /\ conn[c].parsed # "none"
    /\ conn' = [conn EXCEPT ![c].pc = "closed"]
    /\ UNCHANGED <<messages, heap, issued, now>>
    /\ ListenerUnchanged

\* await writer.wait_closed()
WaitClosed(c) ==
    /\ conn[c].pc = "closing"
    /\ conn' = [conn EXCEPT ![c].pc = "closed"]
    /\ UNCHANGED <<messages, heap, issued, now>>
    /\ ListenerUnchanged

(***************************************************************************)
(* The listener alone, with every kind of inbound data.                    *)
(***************************************************************************)
InitIngest ==
    /\ messages = <<>>
    /\ heap = <<>>
    /\ lock = 0
    /\ issued = 0
    /\ now = 0
    /\ conn = [c \in 1..MaxConns |-> NewConn]
    /\ req = <<>>
    /\ flash = <<"none", 0>>
    /\ thr = <<>>
    /\ store0 = [messages |-> <<>>, heap |-> <<>>]
    /\ last = NoCall

NextIngest ==
    \/ \E c \in DOMAIN conn, data \in Inputs : HandleRead(c, data)
    \/ \E c \in DOMAIN conn, ok \in BOOLEAN : Drain(c, ok)
    \/ \E c \in DOMAIN conn : StoreOrder(c)
    \/ \E c \in DOMAIN conn : WaitClosed(c)

SpecIngest == InitIngest /\ [][NextIngest]_vars

\* The steps of a handler after its read.
DrainStep == \E c \in DOMAIN conn : \E ok \in BOOLEAN : Drain(c, ok)

StoreStep == \E c \in DOMAIN conn : StoreOrder(c)

CloseStep == \E c \in DOMAIN conn : WaitClosed(c)

\* StoreOrder(c) is enabled exactly when handler c is about to extract.
StoreStepEnabled == \E c \in DOMAIN conn : conn[c].pc = "storing"

\* The event loop keeps resuming the handlers that can go on: a flush ends
\* (it returns or raises), extraction ends, the close completes.  The
\* second conjunct is WF_vars(StoreStep) with its enabling condition
\* written out.
FairIngest ==
    /\ WF_vars(DrainStep)
    /\ []<>(~StoreStepEnabled) \/ []<><<StoreStep>>_vars
    /\ WF_vars(CloseStep)

\* One kind of inbound data for each way a handler can end: an empty read,
\* a header that does not parse, a failed extraction, a stored order.
ExitInputs == {<<>>, Garbage, OrderNoOBR, OrderBMP}

NextIngestFair ==
    \/ \E c \in DOMAIN conn, data \in ExitInputs : HandleRead(c, data)
    \/ DrainStep
    \/ StoreStep
    \/ CloseStep

SpecIngestFair == InitIngest /\ [][NextIngestFair]_vars /\ FairIngest

(***************************************************************************)
(* The listener's and the composer's pure functions, called alone: the     *)
(* ACK of a message, order extraction and result composition.  A message   *)
(* is built from the field lists of its segments, so what each field of    *)
(* the message holds is known without parsing it.                          *)
(***************************************************************************)
\* Field lists of the header, from MSH-3 on: field n is element n - 2.
HeaderFieldLists ==
    {<<<<"A">>, <<"F">>, <<>>, <<>>, <<>>, <<>>, <<"O", "^", "R">>, <<"7">>>>,
     <<<<"A">>, <<"F">>, <<>>, <<>>, <<>>, <<>>, <<"O", "R", "M">>, <<"7">>>>,
     <<<<>>, <<>>, <<>>, <<>>, <<>>, <<>>, <<>>, <<>>>>,
     <<<<"A">>, <<"F">>, <<>>, <<>>, <<>>, <<>>, <<"O", "^", "R">>>>,
     <<<<"A">>>>,
     <<>>}

\* Field lists of the other segments, from field 1 on; None: no such segment.
PidFieldLists ==
    {None,
     Some(<<<<"1">>, <<>>, <<"I">>, <<>>, <<"N">>, <<>>, <<"D">>, <<"S">>, <<>>, <<>>, <<"Z">>, <<>>, <<"T">>>>),
     Some(<<<<"1">>, <<>>, <<>>, <<>>, <<>>, <<>>, <<>>, <<>>, <<>>, <<>>, <<>>, <<>>, <<>>>>),
     Some(<<<<"1">>>>)}

Pv1FieldLists ==
    {None,
     Some(<<<<"1">>, <<>>, <<>>, <<>>, <<>>, <<>>, <<>>, <<>>, <<>>, <<>>, <<>>, <<>>, <<>>, <<>>, <<>>, <<>>, <<>>, <<>>, <<"E">>>>),
     Some(<<<<"1">>, <<>>, <<>>, <<>>, <<>>, <<>>, <<>>, <<>>, <<>>, <<>>, <<>>, <<>>, <<>>, <<>>, <<>>, <<>>, <<>>, <<>>, <<>>>>)}

OrcFieldLists ==
    {None,
     Some(<<<<"N", "W">>, <<"P">>, <<"F">>, <<>>, <<>>, <<>>, <<>>, <<>>, <<>>, <<>>, <<>>, <<"V">>>>),
     Some(<<<<"N", "W">>, <<>>, <<>>, <<>>, <<>>, <<>>, <<>>, <<>>, <<>>, <<>>, <<>>, <<>>>>),
     Some(<<<<"N", "W">>, <<"P">>>>),
     Some(<<<<"N", "W">>>>)}

ObrFieldLists ==
    {None,
     Some(<<<<"1">>, <<"p">>, <<"f">>, <<"B", "M", "P", "^", "n">>, <<>>, <<>>, <<>>, <<>>, <<>>, <<>>, <<>>, <<>>, <<>>, <<>>, <<>>, <<"v">>>>),
     Some(<<<<"1">>, <<>>, <<>>, <<"B", "M", "P">>>>),
     Some(<<<<"1">>, <<"p">>, <<"f">>, <<"B", "M", "P", "^", "n", "^", "s">>, <<>>, <<>>, <<>>, <<>>, <<>>, <<>>, <<>>, <<>>, <<>>, <<>>, <<>>, <<>>>>)}

OrderParts ==
    [msh : HeaderFieldLists, pid : PidFieldLists, pv1 : Pv1FieldLists,
     orc : OrcFieldLists, obr : ObrFieldLists]

\* The text of a segment with the given name and fields.
SegmentLine(name, seg) ==
    IF seg = None THEN <<>> ELSE <<Join(<<name>> \o seg[1], "|")>>

\* The text of the message made of the given parts.
MessageOf(c) ==
    Join(<<cMSH \o <<"|", "^", "~", "\\", "&", "|">> \o Join(c.msh, "|")>>
         \o SegmentLine(<<"P", "I", "D">>, c.pid)
         \o SegmentLine(<<"P", "V", "1">>, c.pv1)
         \o SegmentLine(<<"O", "R", "C">>, c.orc)
         \o SegmentLine(cOBR, c.obr), "CR")

\* Texts hl7.parse rejects.
Unparseable == {<<"x">>, Garbage, <<"M", "S">>, <<"P", "I", "D", "|", "1">>}

\* Interpretations a caller may supply for an observation field.
Interpretations ==
    {<<"N", "o", "r", "m", "a", "l">>,
     <<"n">>,
     <<"N">>,
     <<"N", "O", "R", "M", "A", "L">>,
     <<"a", "b", "n", "o", "r", "m", "a", "l">>,
     <<"A">>,
     <<"H", "i", "g", "h">>,
     <<"h">>,
     <<"H">>,
     <<"l", "o", "w">>,
     <<"L">>,
     <<"C", "r", "i", "t", "i", "c", "a", "l">>,
     <<"C", "R", "I", "T", "I", "C", "A", "L", " ", "H", "I", "G", "H">>,
     <<"h", "h">>,
     <<"H", "h">>,
     <<"c", "r", "i", "t", "i", "c", "a", "l", " ", "l", "o", "w">>,
     <<"L", "L">>,
     <<"x">>,
     <<>>,
     <<" ", "h", "i", "g", "h">>,
     <<"h", "i", "g", "h", "s">>}

MessagesUnchanged ==
    UNCHANGED <<messages, heap, lock, issued, now, conn, req, flash, thr, store0>>

\* Each run makes one call, so the calls are told apart by their arguments
\* alone.
\* The ACK handle_client builds for a message made of known parts.
CallAck ==
    /\ last = NoCall
    /\ \E c \in OrderParts, ctl \in RandInts :
           last' = [op |-> "ack", arg |-> c, rnd |-> ctl,
                    ret |-> AckMessage(AckHeader(MessageOf(c), ctl))]
    /\ MessagesUnchanged

\* The ACK handle_client builds for a text that is no HL7 message.
CallAckUnparseable ==
    /\ last = NoCall
    /\ \E text \in Unparseable, ctl \in RandInts :
           last' = [op |-> "ack_unparseable", arg |-> text, rnd |-> ctl,
                    ret |-> AckMessage(AckHeader(text, ctl))]
    /\ MessagesUnchanged

CallParse ==
    /\ last = NoCall
    /\ \E c \in OrderParts, rnd \in Rnds :
           last' = [op |-> "parse_order_message", arg |-> c, rnd |-> rnd,
                    ret |-> parse_order_message(MessageOf(c), rnd)]
    /\ MessagesUnchanged

\* Orders a result is composed for: the test code and the encounter id vary.
ComposeOrders ==
    {[SampleParsed EXCEPT !.test_id = t, !.encounter_id = e] :
        t \in {cBMP, <<" ">> \o cBMP \o <<" ">>,
               <<"L", "P", "9", "9", "2", "3", "7", "-", "7">>, <<"X">>},
        e \in {<<>>, <<"E">>}}

\* Mappings from field ids to values: none, or the first field's.
ValuesFor(parsed_data) ==
    LET obs_fields == get_observation_fields(parsed_data.test_id) IN
    {<<>>} \cup {[f \in {obs_fields[i]} |-> 1] : i \in 1..Len(obs_fields) \cap {1}}

\* Mappings from field ids to interpretations: none, one field's, or every
\* field's.
InterpretationsFor(parsed_data) ==
    LET obs_fields == get_observation_fields(parsed_data.test_id)
        ids == {obs_fields[i] : i \in 1..Len(obs_fields)}
    IN  {<<>>}
        \cup {[f \in {id} |-> w] : id \in ids, w \in Interpretations}
        \cup {[f \in ids |-> w] : w \in Interpretations}

CallCompose ==
    /\ last = NoCall
    /\ \E parsed_data \in ComposeOrders :
       \E observation_values \in ValuesFor(parsed_data),
          observation_interpretations \in InterpretationsFor(parsed_data) :
           last' = [op |-> "create_result_message",
                    arg |-> [parsed_data |-> parsed_data,
                             observation_values |-> observation_values,
                             observation_interpretations |->
                                 observation_interpretations],
                    ret |-> create_result_message(parsed_data, observation_values,
                                                  observation_interpretations)]
    /\ MessagesUnchanged

NextMessages == CallAck \/ CallAckUnparseable \/ CallParse \/ CallCompose

SpecMessages == InitStore /\ [][NextMessages]_vars

(***************************************************************************)
(* One scenario end to end: minimal valid orders for test code BMP arrive  *)
(* at the listener, and a result is composed for a stored one from a value *)
(* for its first observation field alone.                                  *)
(***************************************************************************)
\* Header, patient, order-control and order-detail with test code BMP.
MinimalParts ==
    [msh |-> <<<<"A">>, <<"F">>, <<>>, <<>>, <<>>, <<>>, <<"O", "^", "R">>, <<"7">>>>,
     pid |-> Some(<<<<"1">>, <<>>, <<"I">>, <<>>, <<"N">>>>),
     pv1 |-> None,
     orc |-> Some(<<<<"N", "W">>, <<"P">>, <<"F">>>>),
     obr |-> Some(<<<<"1">>, <<"P">>, <<"F">>, cBMP>>)]

MinimalOrder == wrap_mllp(MessageOf(MinimalParts))

\* create_result_message for a stored order, as the process route calls it.
ComposeStored(k) ==
    /\ k \in DOMAIN messages
    /\ \E value \in 1..2 :
           last' = [op |-> "create_result_message", id |-> k,
                    ret |-> create_result_message(
                                Rec(k).parsed_data, [f \in {"2345-7"} |-> value],
                                None)]
    /\ UNCHANGED <<messages, heap, lock, issued, now, conn, req, flash, thr, store0>>

NextScenario ==
    \/ \E c \in DOMAIN conn : HandleRead(c, MinimalOrder)
    \/ DrainStep
    \/ StoreStep
    \/ CloseStep
    \/ \E k \in 1..MaxConns : ComposeStored(k)

SpecScenario == InitIngest /\ [][NextScenario]_vars

(***************************************************************************)
(* The standalone analyzer (lab_analyzer.py): it answers each order itself *)
(* with generated results and keeps no store.  Its ACK and its field       *)
(* extraction are the listener's, statement for statement.                 *)
(***************************************************************************)
\* The keys of test_results and the ids of each key's results.
test_results ==
    [k \in {<<"C", "B", "C">>, cBMP,
            <<"G", "L", "U", "C", "O", "S", "E">>,
            <<"1", "5", "5", "4", "-", "5">>,
            <<"2", "6", "6", "0", "4", "0", "0", "7">>} |->
        CASE k = <<"C", "B", "C">> -> <<"6690-2", "789-8", "718-7", "4544-3">>
          [] k = cBMP -> <<"2345-7", "3094-0", "2160-0", "2951-2", "2823-3">>
          [] k = <<"G", "L", "U", "C", "O", "S", "E">> -> <<"1554-5">>
          [] k = <<"1", "5", "5", "4", "-", "5">> -> <<"1554-5">>
          [] OTHER -> <<"LP32067-8", "LP15101-6", "LA12896-9", "LP7631-7">>]

\* The result message for an order whose test id is in results_of, else None
\* (the ValueError the caller catches); value is what random.uniform returns,
\* the same for every result here.
OruMessage(parsed_data, value, results_of) ==
    LET msh == <<"MSH">> \o T("|^~\\&|LAB_ANALYZER|DUMMY_LAB|")
               \o parsed_data.sending_application \o T("|")
               \o parsed_data.sending_facility \o T("|") \o timestamp
               \o T("||ORU^R01|") \o parsed_data.message_control_id
               \o T("_RESULT|P|2.5")
        pid == <<"PID">> \o T("|1||") \o parsed_data.patient_id \o T("||")
               \o parsed_data.patient_name \o T("||") \o parsed_data.patient_dob
               \o T("|") \o parsed_data.patient_sex \o T("|||")
               \o parsed_data.patient_address \o T("||")
               \o parsed_data.patient_phone \o T("|||||||")
        pv1 == <<"PV1">> \o T("|1|||||||||||||||||") \o parsed_data.encounter_id
               \o T("|||||||||||||||||||||||||||||||||")
        orc == <<"ORC">> \o T("|RE|") \o parsed_data.placer_order \o T("|")
               \o parsed_data.filler_order \o T("||CM||||") \o timestamp
               \o T("|||") \o parsed_data.ordering_provider
        obr == <<"OBR">> \o T("|1|") \o parsed_data.placer_order \o T("|")
               \o parsed_data.filler_order \o T("|") \o parsed_data.test_id
               \o T("^") \o parsed_data.test_name
               \o (IF parsed_data.test_system # <<>>
                   THEN T("^") \o parsed_data.test_system ELSE <<>>)
               \o T("|||") \o timestamp \o T("|||||||") \o timestamp \o T("|||")
               \o parsed_data.ordering_provider \o T("||||||||F")
        results == results_of[Strip(parsed_data.test_id)]
        obx(idx) ==
            <<"OBX">> \o T("|") \o <<ToString(idx)>> \o T("|NM|")
            \o <<results[idx]>> \o T("^name^http://loinc.org||") \o Fmt2f(value)
            \o T("|units|reference|N|||F|||") \o timestamp
    IN  IF Strip(parsed_data.test_id) \notin DOMAIN results_of THEN None
        ELSE Join(<<msh, pid>>
                  \o (IF parsed_data.encounter_id # <<>> THEN <<pv1>> ELSE <<>>)
                  \o <<orc, obr>>
                  \o [idx \in 1..Len(results) |-> obx(idx)], "CR")

\* A composer that falls back to the CBC results for a test id it does not
\* know.
create_oru_message_cbc_by_default(parsed_data, value) ==
    OruMessage(parsed_data, value,
               [k \in DOMAIN test_results \cup {Strip(parsed_data.test_id)} |->
                   IF k \in DOMAIN test_results THEN test_results[k]
                   ELSE test_results[<<"C", "B", "C">>]])

create_oru_message(parsed_data, value) ==
    OruMessage(parsed_data, value, test_results)

\* generate_dummy_results: None when anything in it raises.  The debug
\* logging reads pid[3] and pid[5] of a PID segment that is there, which
\* raises when the segment is shorter.
generate_dummy_results(order_message, rnd, value) ==
    LET p == hl7_parse(Decode(order_message))
        pid == SegmentOrNone(p.segs, <<"P", "I", "D">>)
        parsed_data == parse_order_message(order_message, rnd)
    IN  IF ~p.ok THEN None
        ELSE IF pid # None /\ Len(pid) <= 5 THEN None
        ELSE IF parsed_data = None THEN None
        ELSE create_oru_message(parsed_data, value)

NewClient ==
    [pc |-> "accepted", data |-> <<>>, written |-> <<>>, flushed |-> FALSE,
     generated |-> FALSE, attempts |-> 0, sent |-> <<>>, send_done |-> FALSE]

StandaloneUnchanged ==
    UNCHANGED <<messages, heap, lock, issued, now, req, flash, thr, store0, last>>

\* data = await reader.read(4096), then everything up to writer.write(ack).
ClientRead(c, data) ==
    /\ conn[c].pc = "accepted"
    /\ \E ctl \in RandInts :
           conn' = [conn EXCEPT ![c] =
               IF data = <<>>
               THEN [@ EXCEPT !.pc = "closing"]
               ELSE [@ EXCEPT !.pc = "draining", !.data = data,
                        !.written = Append(@, wrap_mllp(
                            AckMessage(AckHeader(unwrap_mllp(data), ctl))))]]
    /\ StandaloneUnchanged

\* await writer.drain(): it returns, or raises and the handler closes.
ClientDrain(c, ok) ==
    /\ conn[c].pc = "draining"
    /\ conn' = [conn EXCEPT ![c] =
           IF ok THEN [@ EXCEPT !.pc = "generating", !.flushed = TRUE]
           ELSE [@ EXCEPT !.pc = "closing"]]
    /\ StandaloneUnchanged

\* generate_dummy_results, then send_to_mllp_server up to its first await
\* when there is a result.
ClientGenerate(c) ==
    /\ conn[c].pc = "generating"
    /\ \E rnd \in Rnds, value \in 1..2 :
           LET result_message ==
                   generate_dummy_results(unwrap_mllp(conn[c].data), rnd, value)
           IN  conn' = [conn EXCEPT ![c] =
                   IF result_message # None
                   THEN [@ EXCEPT !.pc = "sending", !.generated = TRUE,
                                  !.attempts = @ + 1,
                                  !.sent = <<wrap_mllp(result_message)>>]
                   ELSE [@ EXCEPT !.pc = "closing"]]
    /\ StandaloneUnchanged

\* A handler that closes the inbound connection as soon as the send has
\* been started.
ClientSendEndDetached(c, outcome) ==
    /\ conn[c].pc = "sending"
    /\ conn' = [conn EXCEPT ![c] = [@ EXCEPT !.pc = "closing"]]
    /\ StandaloneUnchanged

\* send_to_mllp_server returns, whatever its result; sent is what reached
\* the receiver.
ClientSendEnd(c, outcome) ==
    /\ conn[c].pc = "sending"
    /\ conn' = [conn EXCEPT ![c] =
           [@ EXCEPT !.pc = "closing", !.send_done = TRUE,
                     !.sent = IF outcome = "refused" THEN <<>> ELSE @]]
    /\ StandaloneUnchanged

\* writer.close(); await writer.wait_closed() in finally
ClientClose(c) ==
    /\ conn[c].pc = "closing"
    /\ conn' = [conn EXCEPT ![c].pc = "closed"]
    /\ StandaloneUnchanged

StandaloneInputs ==
    {<<>>, OrderBMP, OrderUnknownTest, OrderNoOBR, OrderEmptyTestId, Garbage}

InitStandalone ==
    /\ messages = <<>>
    /\ heap = <<>>
    /\ lock = 0
    /\ issued = 0
    /\ now = 0
    /\ conn = [c \in 1..MaxConns |-> NewClient]
    /\ req = <<>>
    /\ flash = <<"none", 0>>
    /\ thr = <<>>
    /\ store0 = [messages |-> <<>>, heap |-> <<>>]
    /\ last = NoCall

NextStandalone ==
    \/ \E c \in DOMAIN conn, data \in StandaloneInputs : ClientRead(c, data)
    \/ \E c \in DOMAIN conn, ok \in BOOLEAN : ClientDrain(c, ok)
    \/ \E c \in DOMAIN conn : ClientGenerate(c)
    \/ \E c \in DOMAIN conn, outcome \in SendOutcomes : ClientSendEnd(c, outcome)
    \/ \E c \in DOMAIN conn : ClientClose(c)

SpecStandalone == InitStandalone /\ [][NextStandalone]_vars

(***************************************************************************)
(* The review routes.  A request slot holds one POST .../process from its  *)
(* read of the record to the end of its send.                              *)
(***************************************************************************)
Keys == 1..MaxOrders

Forms == {"none", "valid", "invalid"}

NewReq == [pc |-> "idle", message_id |-> 0, message |-> 0]

RoutesUnchanged == UNCHANGED <<lock, conn, thr, store0, last>>

\* POST /message/<id>/discard
discard_message(message_id) ==
    /\ update_status(message_id, "discarded", None)
    /\ flash' = IF message_id \in DOMAIN messages
                THEN <<"discarded", message_id>> ELSE <<"not_found", message_id>>
    /\ UNCHANGED req
    /\ RoutesUnchanged

\* A route that does not look at the record's status before it sends.
SubmitBeginUnchecked(r, message_id, form) ==
    /\ req[r].pc = "idle"
    /\ IF get_message(message_id) = 0
       THEN /\ flash' = <<"not_found", message_id>>
            /\ UNCHANGED req
       ELSE /\ req' = [req EXCEPT ![r] = [pc |-> "sending",
                                          message_id |-> message_id,
                                          message |-> get_message(message_id)]]
            /\ UNCHANGED flash
    /\ UNCHANGED <<messages, heap, issued, now>>
    /\ RoutesUnchanged

\* POST /message/<id>/process, up to the start of send_result.
SubmitBegin(r, message_id, form) ==
    /\ req[r].pc = "idle"
    /\ IF get_message(message_id) = 0
       THEN /\ flash' = <<"not_found", message_id>>
            /\ UNCHANGED req
       ELSE LET message == get_message(message_id)
                parsed_data == heap[message].parsed_data
                obs_fields == get_observation_fields(parsed_data.test_id)
                observation_values ==
                    IF form = "valid" /\ obs_fields # <<>>
                    THEN [f \in {obs_fields[1]} |-> 1] ELSE <<>>
            IN  IF heap[message].status # "pending"
                THEN /\ flash' = <<"already", message_id>>
                     /\ UNCHANGED req
                ELSE IF form = "invalid" /\ obs_fields # <<>>
                THEN /\ flash' = <<"invalid", message_id>>
                     /\ UNCHANGED req
                ELSE /\ create_result_message(parsed_data, observation_values, None) # <<>>
                     /\ req' = [req EXCEPT ![r] = [pc |-> "sending",
                                                   message_id |-> message_id,
                                                   message |-> message]]
                     /\ UNCHANGED flash
    /\ UNCHANGED <<messages, heap, issued, now>>
    /\ RoutesUnchanged

\* A process-submit that marks the order processed whatever send_result
\* returned.
SubmitEndAlwaysUpdates(r, outcome) ==
    /\ req[r].pc = "sending"
    /\ update_status(req[r].message_id, "processed", None)
    /\ flash' = IF send_result(outcome) THEN <<"sent", req[r].message_id>>
                ELSE <<"failed", req[r].message_id>>
    /\ req' = [req EXCEPT ![r] = NewReq]
    /\ RoutesUnchanged

\* send_result has returned: update_status only "if success".
SubmitEnd(r, outcome) ==
    /\ req[r].pc = "sending"
    /\ IF send_result(outcome)
       THEN /\ update_status(req[r].message_id, "processed", None)
            /\ flash' = <<"sent", req[r].message_id>>
       ELSE /\ flash' = <<"failed", req[r].message_id>>
            /\ UNCHANGED <<messages, heap, issued, now>>
    /\ req' = [req EXCEPT ![r] = NewReq]
    /\ RoutesUnchanged

\* POST /clear-processed
clear_processed_route ==
    /\ clear_processed
    /\ flash' = <<"cleared", StoreClear(Store).ret>>
    /\ UNCHANGED req
    /\ RoutesUnchanged

(***************************************************************************)
(* The whole system: the listener's connections and the review requests.   *)
(***************************************************************************)
SystemInputs == {<<>>, OrderBMP, OrderUnknownTest, OrderEmptyTestId}

Init ==
    /\ messages = <<>>
    /\ heap = <<>>
    /\ lock = 0
    /\ issued = 0
    /\ now = 0
    /\ conn = [c \in 1..MaxOrders |-> NewConn]
    /\ req = [r \in 1..MaxReqs |-> NewReq]
    /\ flash = <<"none", 0>>
    /\ thr = <<>>
    /\ store0 = [messages |-> <<>>, heap |-> <<>>]
    /\ last = NoCall

Next ==
    \/ \E c \in DOMAIN conn, data \in SystemInputs : HandleRead(c, data)
    \/ \E c \in DOMAIN conn, ok \in BOOLEAN : Drain(c, ok)
    \/ \E c \in DOMAIN conn : StoreOrder(c)
    \/ \E c \in DOMAIN conn : WaitClosed(c)
    \/ \E k \in Keys : discard_message(k)
    \/ \E r \in DOMAIN req, k \in Keys, form \in Forms : SubmitBegin(r, k, form)
    \/ \E r \in DOMAIN req, outcome \in SendOutcomes : SubmitEnd(r, outcome)
    \/ clear_processed_route

Spec == Init /\ [][Next]_vars

(***************************************************************************)
(* C1.  For every id, once update_status has set a terminal status         *)
(* (processed or discarded), no later update_status call changes the       *)
(* record's status or its processed_at.                                    *)
(***************************************************************************)
C1_TerminalIsFinal ==
    [][\A k \in DOMAIN messages :
           (/\ last'.op = "update_status"
            /\ last'.id = k
            /\ Rec(k).status \in Terminal)
           => /\ heap'[messages'[k]].status = Rec(k).status
              /\ heap'[messages'[k]].processed_at = Rec(k).processed_at]_vars

(***************************************************************************)
(* The same calls made one after another, in a given order of the threads, *)
(* each taking effect at once; an add_message call uses the uuid its       *)
(* thread drew.                                                            *)
(***************************************************************************)
AllDone == \A t \in Threads : thr[t].pc = "done"

ApplyCall(st, t) ==
    LET call == thr[t].call IN
    CASE call.op = "add_message" ->
             [st |-> StoreAdd(st, thr[t].message_id, Decode(unwrap_mllp(OrderBMP)),
                              SampleParsed, now),
              ret |-> [kind |-> "id", val |-> thr[t].message_id]]
      [] call.op = "update_status" ->
             LET r == StoreUpdate(st, call.id, call.status, None, now)
             IN  [st |-> r.st, ret |-> BoolRet(r.ret)]
      [] call.op = "remove_message" ->
             LET r == StoreRemove(st, call.id)
             IN  [st |-> r.st, ret |-> BoolRet(r.ret)]
      [] OTHER ->
             LET r == StoreClear(st)
             IN  [st |-> r.st, ret |-> [kind |-> "count", val |-> r.ret]]

RECURSIVE SeqRun(_, _, _)
SeqRun(order, i, run) ==
    IF i > Len(order) THEN run
    ELSE LET r == ApplyCall(run.st, order[i])
         IN  SeqRun(order, i + 1,
                    [st |-> r.st,
                     rets |-> [run.rets EXCEPT ![order[i]] = r.ret]])

Orders == {p \in [Threads -> Threads] : \A a, b \in Threads : a # b => p[a] # p[b]}

\* What a store holds, whatever the addresses of its records.
View(st) == [k \in DOMAIN st.messages |-> st.heap[st.messages[k]]]

(***************************************************************************)
(* C6.  Concurrent add_message calls, in any interleaving of their steps,  *)
(* return pairwise distinct ids; when every thread's call is add_message,  *)
(* the store ends with one more record per call, each under the id its     *)
(* call returned, and the records it held before are untouched.            *)
(***************************************************************************)
C6_ConcurrentAdds ==
    AllDone =>
        /\ \A a, b \in Threads :
               (/\ a # b
                /\ thr[a].call.op = "add_message"
                /\ thr[b].call.op = "add_message")
               => thr[a].ret.val # thr[b].ret.val
        /\ (\A t \in Threads : thr[t].call.op = "add_message") =>
               /\ Cardinality(DOMAIN messages)
                      = Cardinality(DOMAIN store0.messages) + MaxThreads
               /\ \A t \in Threads :
                      /\ thr[t].ret.kind = "id"
                      /\ thr[t].ret.val \in DOMAIN messages
                      /\ Rec(thr[t].ret.val).id = thr[t].ret.val
                      /\ Rec(thr[t].ret.val).status = "pending"
               /\ \A k \in DOMAIN store0.messages :
                      k \in DOMAIN messages /\ Rec(k) = View(store0)[k]

\* Two add_message calls have returned, and the one that drew its uuid first
\* inserted its record last.
C6_Witness ==
    /\ AllDone
    /\ \A t \in Threads : thr[t].call.op = "add_message"
    /\ \E a, b \in Threads :
           /\ thr[a].ret.val < thr[b].ret.val
           /\ messages[thr[a].ret.val] > messages[thr[b].ret.val]

(***************************************************************************)
(* C7.  Whatever the interleaving of concurrent add_message,               *)
(* update_status, remove_message and clear_processed calls, the store they *)
(* leave and the values they return are those of the same calls made one   *)
(* after another in some order.                                            *)
(***************************************************************************)
C7_Linearizable ==
    AllDone =>
        \E order \in Orders :
            LET run == SeqRun(order, 1, [st |-> store0,
                                         rets |-> [t \in Threads |-> NoRet]])
            IN  /\ View(run.st) = View(Store)
                /\ \A t \in Threads : run.rets[t] = thr[t].ret

\* An update_status to processed and a clear_processed ran concurrently on a
\* pending record, and the clear removed the record the update had finished.
C7_Witness ==
    /\ AllDone
    /\ View(store0)[1].status = "pending"
    /\ \E a, b \in Threads :
           /\ thr[a].call = [op |-> "update_status", id |-> 1, status |-> "processed"]
           /\ thr[a].ret = BoolRet(TRUE)
           /\ thr[b].call.op = "clear_processed"
           /\ thr[b].ret = [kind |-> "count", val |-> 1]
    /\ 1 \notin DOMAIN messages

(***************************************************************************)
(* C2.  In every run of the whole system a stored record's status only     *)
(* moves from pending to processed or discarded: it never changes once it  *)
(* is terminal and never returns to pending.                               *)
(***************************************************************************)
C2_StatusMonotone ==
    [][\A k \in DOMAIN messages \cap DOMAIN messages' :
           /\ Rec(k).status \in Terminal
                  => heap'[messages'[k]].status = Rec(k).status
           /\ heap'[messages'[k]].status = "pending"
                  => Rec(k).status = "pending"]_vars

(***************************************************************************)
(* C3.  A connection whose read returned data gets exactly one ACK         *)
(* written, whether or not the header parses and whether or not the order  *)
(* is extracted; no connection gets more than one.                         *)
(***************************************************************************)
HeaderParses(data) == hl7_parse(Decode(unwrap_mllp(data))).ok

C3_ExactlyOneAck ==
    \A c \in DOMAIN conn :
        /\ Len(conn[c].written) <= 1
        /\ (conn[c].pc # "accepted" /\ conn[c].data # <<>>)
               => Len(conn[c].written) = 1

\* One closed connection whose header did not parse and one whose header
\* parsed but whose order was rejected, each with its one ACK.
C3_Witness ==
    \E c, d \in DOMAIN conn :
        /\ conn[c].pc = "closed" /\ conn[c].data # <<>>
        /\ ~HeaderParses(conn[c].data)
        /\ Len(conn[c].written) = 1
        /\ conn[d].pc = "closed" /\ HeaderParses(conn[d].data)
        /\ conn[d].parsed = "fail"
        /\ Len(conn[d].written) = 1

(***************************************************************************)
(* C4.  Within a connection the ACK is written and flushed before the      *)
(* order is extracted and before a record is inserted: no record is in the *)
(* store for a connection whose ACK has not been written and flushed.      *)
(***************************************************************************)
C4_AckBeforeStore ==
    /\ \A c \in DOMAIN conn :
           (conn[c].pc = "storing" \/ conn[c].parsed # "none" \/ conn[c].key # 0)
           => Len(conn[c].written) = 1 /\ conn[c].flushed
    /\ \A k \in DOMAIN messages :
           \E c \in DOMAIN conn :
               conn[c].key = k /\ Len(conn[c].written) = 1 /\ conn[c].flushed

\* A record is in the store while its connection, acknowledged, is closing.
C4_Witness ==
    \E c \in DOMAIN conn :
        /\ conn[c].pc = "closing"
        /\ conn[c].key \in DOMAIN messages
        /\ Len(conn[c].written) = 1 /\ conn[c].flushed

(***************************************************************************)
(* C5.  A message with no OBR segment, or whose OBR field 4 is absent or   *)
(* empty, or whose OBR field 4 has an empty first component, fails         *)
(* extraction and adds nothing to the store; no stored record has an empty *)
(* test id.                                                                *)
(***************************************************************************)
LacksTestId(data) ==
    LET p == hl7_parse(Decode(unwrap_mllp(data))) IN
    \/ ~p.ok
    \/ ~HasSegment(p.segs, cOBR)
    \/ LET obr == Segment(p.segs, cOBR)
       IN  \/ Len(obr) <= 4
           \/ Fld(obr, 4) = <<>>
           \/ SplitOn(Fld(obr, 4), "^")[1] = <<>>

C5_NoTestIdNoRecord ==
    /\ \A c \in DOMAIN conn :
           (conn[c].parsed # "none" /\ LacksTestId(conn[c].data))
           => /\ conn[c].parsed = "fail"
              /\ conn[c].key = 0
              /\ \A k \in DOMAIN messages :
                     Rec(k).raw_message # Decode(unwrap_mllp(conn[c].data))
    /\ \A k \in DOMAIN messages : Rec(k).parsed_data.test_id # <<>>

\* Extraction has failed for a message without OBR and for one whose OBR
\* field 4 has an empty first component, and the store is empty.
C5_Witness ==
    \E c, d \in DOMAIN conn :
        /\ conn[c].data = OrderNoOBR /\ conn[c].parsed = "fail"
        /\ conn[d].data = OrderEmptyTestId /\ conn[d].parsed = "fail"
        /\ DOMAIN messages = {}

(***************************************************************************)
(* C8.  A record obtained from get_message is a copy: while the caller     *)
(* holds it, no update_status, remove_message or clear_processed on the    *)
(* store changes its fields.                                               *)
(***************************************************************************)
C8_ReadsAreCopies ==
    [][\A r \in DOMAIN req :
           (req[r].pc = "sending" /\ req'[r].pc = "sending")
           => heap'[req[r].message] = heap[req[r].message]]_vars

(***************************************************************************)
(* C9.  When the order's test code is not a key of the observation-field   *)
(* table, process-submit sends nothing downstream and does not mark the    *)
(* order processed.                                                        *)
(***************************************************************************)
KnownTest(rec) == Strip(rec.parsed_data.test_id) \in DOMAIN test_fields

C9_UnknownTestRejected ==
    /\ \A r \in DOMAIN req :
           req[r].pc = "sending" => KnownTest(heap[req[r].message])
    /\ \A k \in DOMAIN messages :
           Rec(k).status = "processed" => KnownTest(Rec(k))

(***************************************************************************)
(* C10.  A process-submit whose send_result returned false leaves the      *)
(* store as it was, so the record stays pending and can be submitted       *)
(* again; a record becomes processed only in the step of a process-submit  *)
(* whose send_result returned true.                                        *)
(***************************************************************************)
C10_FailedSendLeavesPending ==
    [][/\ \A r \in DOMAIN req :
              (/\ req[r].pc = "sending"
               /\ req'[r].pc = "idle"
               /\ flash' = <<"failed", req[r].message_id>>)
              => messages' = messages /\ heap' = heap
       /\ \A k \in DOMAIN messages \cap DOMAIN messages' :
              (Rec(k).status # "processed"
               /\ heap'[messages'[k]].status = "processed")
              => /\ flash' = <<"sent", k>>
                 /\ \E r \in DOMAIN req :
                        /\ req[r].pc = "sending"
                        /\ req[r].message_id = k
                        /\ req'[r].pc = "idle"]_vars

\* A send has failed for a record, which is still pending, and a
\* process-submit for the same record is sending again.
C10_Witness ==
    \E r \in DOMAIN req :
        /\ req[r].pc = "sending"
        /\ flash = <<"failed", req[r].message_id>>
        /\ \A q \in DOMAIN req : q # r => req[q].pc = "idle"
        /\ req[r].message_id \in DOMAIN messages
        /\ Rec(req[r].message_id).status = "pending"

(***************************************************************************)
(* C11.  send_result returns true only if the downstream receiver sent at  *)
(* least one byte before the timeout: it returns false on a timeout, on a  *)
(* connection error and when the receiver closes without sending a byte.   *)
(***************************************************************************)
C11_TrueOnlyOnResponse ==
    last.op = "send_result" => (last.ret <=> last.arg = "ack")

(***************************************************************************)
(* C17.  For every payload p, unwrap_mllp(wrap_mllp(p)) = p, and           *)
(* wrap_mllp(p) is p with one 0x0B in front and 0x1C 0x0D behind, three    *)
(* bytes longer.                                                           *)
(***************************************************************************)
C17_RoundTrip ==
    last.op = "wrap_mllp"
    => /\ unwrap_mllp(last.ret) = last.arg
       /\ Len(last.ret) = Len(last.arg) + 3
       /\ last.ret[1] = "VT"
       /\ last.ret[Len(last.ret) - 1] = "FS"
       /\ last.ret[Len(last.ret)] = "CR"
       /\ \A i \in 1..Len(last.arg) : last.ret[i + 1] = last.arg[i]

\* A payload that itself holds framing bytes has been wrapped.
C17_Witness ==
    /\ last.op = "wrap_mllp"
    /\ Len(last.arg) = MaxLen
    /\ last.arg[1] = "VT"
    /\ last.arg[Len(last.arg)] = "CR"

(***************************************************************************)
(* C18.  unwrap_mllp returns a frame that begins with 0x0B and ends with   *)
(* 0x1C 0x0D without those three bytes, and returns every other input     *)
(* (no start byte, missing or partial end bytes, empty) unchanged.         *)
(***************************************************************************)
IsFramed(d) ==
    /\ Len(d) >= 3
    /\ d[1] = "VT"
    /\ d[Len(d) - 1] = "FS"
    /\ d[Len(d)] = "CR"

C18_UnwrapTotal ==
    last.op = "unwrap_mllp"
    => IF IsFramed(last.arg)
       THEN /\ Len(last.ret) = Len(last.arg) - 3
            /\ \A i \in 1..Len(last.ret) : last.ret[i] = last.arg[i + 1]
       ELSE last.ret = last.arg

\* An input with the start byte and only the first of the end bytes came
\* back unchanged.
C18_Witness ==
    /\ last.op = "unwrap_mllp"
    /\ Len(last.arg) = 3
    /\ last.arg[1] = "VT"
    /\ last.arg[3] = "FS"
    /\ last.ret = last.arg

(***************************************************************************)
(* C12.  In every reachable state of the store a record's processed_at is  *)
(* set if and only if its status is not pending.                           *)
(***************************************************************************)
C12_ProcessedAtIffNotPending ==
    \A k \in DOMAIN messages :
        Rec(k).processed_at # None <=> Rec(k).status # "pending"

(***************************************************************************)
(* C13.  After a process-submit whose result message was composed and sent *)
(* successfully, the order's record has result_message set.                *)
(***************************************************************************)
C13_ResultRecorded ==
    [][\A r \in DOMAIN req :
           (/\ req[r].pc = "sending"
            /\ req'[r].pc = "idle"
            /\ flash' = <<"sent", req[r].message_id>>
            /\ req[r].message_id \in DOMAIN messages')
           => heap'[messages'[req[r].message_id]].result_message # None]_vars

(***************************************************************************)
(* C14.  A connection whose message is extracted successfully causes       *)
(* exactly one add_message call, which inserts one new record, pending,    *)
(* with processed_at and result_message unset; a connection whose          *)
(* extraction fails or whose read is empty causes none.  Without removals  *)
(* the store holds as many records as messages were extracted.             *)
(***************************************************************************)
Extracted == {c \in DOMAIN conn : conn[c].parsed = "ok"}

C14_OneRecordPerOrder ==
    /\ Cardinality(DOMAIN messages) = Cardinality(Extracted)
    /\ issued = Cardinality(Extracted)
    /\ \A c \in DOMAIN conn :
           /\ conn[c].parsed # "none"
                  => (conn[c].parsed = "ok" <=> ~LacksTestId(conn[c].data))
           /\ conn[c].parsed # "ok" => conn[c].key = 0
           /\ conn[c].parsed = "ok"
                  => /\ conn[c].key \in DOMAIN messages
                     /\ Rec(conn[c].key).id = conn[c].key
                     /\ Rec(conn[c].key).status = "pending"
                     /\ Rec(conn[c].key).processed_at = None
                     /\ Rec(conn[c].key).result_message = None
                     /\ Rec(conn[c].key).raw_message
                            = Decode(unwrap_mllp(conn[c].data))
                     /\ \A d \in DOMAIN conn :
                            d # c => conn[d].key # conn[c].key

\* One connection's order is stored, another's was rejected.
C14_Witness ==
    \E c, d \in DOMAIN conn :
        /\ conn[c].parsed = "ok" /\ conn[c].key \in DOMAIN messages
        /\ conn[d].parsed = "fail"
        /\ Cardinality(DOMAIN messages) = 1

(***************************************************************************)
(* C15.  Every connection whose handler got past the initial read is       *)
(* eventually closed: after an empty read, a header that does not parse,   *)
(* a failed extraction, a stored order, and a failure while the ACK is     *)
(* written out.                                                            *)
(***************************************************************************)
C15_EventuallyClosed ==
    \A c \in 1..MaxConns :
        (conn[c].pc # "accepted") ~> (conn[c].pc = "closed")

\* A connection is closed whose ACK could not be flushed, next to one that
\* is closed after an empty read.
C15_Witness ==
    \E c, d \in DOMAIN conn :
        /\ conn[c].pc = "closed" /\ Len(conn[c].written) = 1 /\ ~conn[c].flushed
        /\ conn[d].pc = "closed" /\ conn[d].data = <<>>

(***************************************************************************)
(* C16.  When the read of a connection returns no data the handler writes  *)
(* no ACK, extracts nothing, inserts nothing and closes the connection.    *)
(***************************************************************************)
C16_EmptyReadOnlyCloses ==
    \A c \in DOMAIN conn :
        (conn[c].pc # "accepted" /\ conn[c].data = <<>>)
        => /\ conn[c].written = <<>>
           /\ ~conn[c].flushed
           /\ conn[c].parsed = "none"
           /\ conn[c].key = 0
           /\ conn[c].pc \in {"closing", "closed"}
           /\ \A k \in DOMAIN messages : \E d \in DOMAIN conn \ {c} : conn[d].key = k

\* A connection is closed after an empty read while another's order is in
\* the store.
C16_Witness ==
    \E c, d \in DOMAIN conn :
        /\ conn[c].pc = "closed" /\ conn[c].data = <<>>
        /\ conn[d].key \in DOMAIN messages

(***************************************************************************)
(* C19.  update_status on an id that is not in the store returns false and *)
(* leaves the store unchanged; on an id that is in the store it returns    *)
(* true, sets the status to the given value, stamps processed_at when the  *)
(* new status is processed or discarded, sets result_message when one is   *)
(* supplied, and leaves every other record unchanged.                      *)
(***************************************************************************)
\* The step is an update_status call (the clock stands still during one).
IsUpdateCall == last'.op = "update_status" /\ now' = now

\* What the call is to do; given says whether its result_message counts as
\* supplied.
UpdateEffect(given) ==
    LET k == last'.id IN
    IF k \notin DOMAIN messages
    THEN last'.ret = 0 /\ messages' = messages /\ heap' = heap
    ELSE /\ last'.ret = 1
         /\ messages' = messages
         /\ DOMAIN heap' = DOMAIN heap
         /\ \A i \in DOMAIN heap : i # messages[k] => heap'[i] = heap[i]
         /\ LET old == heap[messages[k]]
                new == heap'[messages[k]]
            IN  /\ new.status = last'.status
                /\ new.processed_at = IF last'.status \in Terminal
                                      THEN Some(now) ELSE old.processed_at
                /\ new.result_message = IF given THEN last'.result_message
                                        ELSE old.result_message
                /\ new.id = old.id
                /\ new.raw_message = old.raw_message
                /\ new.parsed_data = old.parsed_data
                /\ new.received_at = old.received_at

\* C19 as stated: any result_message that is passed is recorded.
C19_UpdateEffect ==
    [][IsUpdateCall => UpdateEffect(last'.result_message # None)]_vars

\* C19 amended: a result_message that is passed is recorded when it is not
\* the empty string; None and the empty string leave the field as it was.
C19_UpdateEffectNonEmpty ==
    [][IsUpdateCall
       => UpdateEffect(/\ last'.result_message # None
                       /\ last'.result_message # Some(<<>>))]_vars

\* update_status was called with an empty result_message on a record that
\* held a result, which it still holds, now with a terminal status and a
\* fresh stamp, next to another record.
C19_Witness ==
    /\ last.op = "update_status"
    /\ last.ret = 1
    /\ last.result_message = Some(<<>>)
    /\ last.status \in Terminal
    /\ last.id \in DOMAIN messages
    /\ Rec(last.id).result_message = Some(<<"R">>)
    /\ Rec(last.id).processed_at = Some(now)
    /\ Rec(last.id).received_at # now
    /\ \E k \in DOMAIN messages : k # last.id

(***************************************************************************)
(* C20.  clear_processed removes every record whose status is processed or *)
(* discarded, returns the number of records it removed, and leaves every   *)
(* pending record in the store unchanged.                                  *)
(***************************************************************************)
IsClearCall == last'.op = "clear_processed" /\ now' = now

C20_ClearEffect ==
    [][IsClearCall
       => LET gone == {k \in DOMAIN messages :
                          Rec(k).status \in {"processed", "discarded"}}
          IN  /\ DOMAIN messages' = DOMAIN messages \ gone
              /\ last'.ret = Cardinality(gone)
              /\ \A k \in DOMAIN messages' :
                     /\ heap'[messages'[k]] = Rec(k)
                     /\ Rec(k).status = "pending"]_vars

\* clear_processed has removed a record and left a pending one.
C20_Witness ==
    /\ last.op = "clear_processed"
    /\ last.ret = 1
    /\ issued = 2
    /\ \E k \in DOMAIN messages : Rec(k).status = "pending"

(***************************************************************************)
(* C21.  Over any sequence of add_message, remove_message and              *)
(* clear_processed calls an id returned by add_message is never returned   *)
(* again, also after its record was removed; and every record is stored    *)
(* under the key equal to its own id field.                                *)
(***************************************************************************)
IsAddCall == last'.op = "add_message" /\ issued' # issued

\* issued counts the ids drawn so far, and every id drawn so far is at most
\* issued: an id above it was never returned.
C21_IdsNeverReused ==
    [][/\ \A k \in DOMAIN messages' : heap'[messages'[k]].id = k
       /\ \A k \in DOMAIN messages : k <= issued
       /\ last.op = "add_message" => last.ret <= issued
       /\ IsAddCall
              => /\ last'.ret > issued
                 /\ last'.ret \notin DOMAIN messages
                 /\ \A i \in DOMAIN heap :
                        heap[i] # None => heap[i].id # last'.ret
                 /\ DOMAIN messages' = DOMAIN messages \cup {last'.ret}]_vars

\* add_message has returned a second id after the first record was removed.
C21_Witness ==
    /\ last.op = "add_message"
    /\ last.ret = 2
    /\ DOMAIN messages = {2}
    /\ Rec(2).id = 2

(***************************************************************************)
(* C22.  The ACK's message type is ACK^<baseType>: baseType is the second  *)
(* component of the inbound MSH-9 when that field is composite, the whole  *)
(* field value when it is not composite, and the default only when the     *)
(* field is absent or the header cannot be parsed.                         *)
(***************************************************************************)
IsAck == last.op \in {"ack", "ack_unparseable"}

\* The text between "ACK^" and the next field of the ACK's header.
AckTypeOf(ack) ==
    SubSeq(ack, FindFrom(ack, "||ACK^", 1) + 1, FindFrom(ack, "|ACK", 1) - 1)

\* The base type the inbound message-type field stands for.
BaseTypeOf(msh) ==
    IF Len(msh) < 7 THEN T("O01")
    ELSE IF FindFrom(msh[7], "^", 1) # 0 THEN SplitOn(msh[7], "^")[2]
    ELSE msh[7]

C22_AckType ==
    /\ last.op = "ack" => AckTypeOf(last.ret) = BaseTypeOf(last.arg.msh)
    /\ last.op = "ack_unparseable" => AckTypeOf(last.ret) = T("O01")

(***************************************************************************)
(* C23.  Every ACK carries acknowledgment code AA, and the inbound         *)
(* message's control id (MSH-10) when the header parses and has that       *)
(* field, otherwise the freshly generated fallback id; also for a message  *)
(* whose order extraction fails.                                           *)
(***************************************************************************)
C23_AckAcceptsAndEchoes ==
    IsAck =>
        LET segments == SplitOn(last.ret, "CR") IN
        /\ Len(segments) = 2
        /\ segments[2][1] = "MSA|AA|"
        /\ Tail(segments[2]) =
               IF last.op = "ack" /\ Len(last.arg.msh) >= 8
               THEN last.arg.msh[8] ELSE last.rnd

\* The ACK of a message with a control id and no order-detail segment.
C23_Witness ==
    /\ last.op = "ack"
    /\ last.arg.obr = None
    /\ parse_order_message(MessageOf(last.arg), [msg |-> <<"1">>, filler |-> <<"1">>])
           = None
    /\ Len(last.arg.msh) >= 8
    /\ last.arg.msh[8] = <<"7">>
    /\ last.rnd # <<"7">>
    /\ Tail(SplitOn(last.ret, "CR")[2]) = <<"7">>

(***************************************************************************)
(* C24.  In order extraction every field with a fallback gets the fallback *)
(* both when its source field is absent and when it is present but empty;  *)
(* in particular sending_application, sending_facility and                 *)
(* message_control_id when MSH-3, MSH-4 and MSH-10 are present but empty.  *)
(***************************************************************************)
IsExtraction == last.op = "parse_order_message" /\ last.ret # None

\* Field i of a segment given by its field list when it is there and holds
\* a value, else the default.
Sourced(seg, i, default) ==
    IF seg # None /\ Len(seg[1]) >= i /\ seg[1][i] # <<>>
    THEN seg[1][i] ELSE default

\* The same for header field n, which is element n - 2 of the header's list.
HeaderSourced(msh, n, default) == Sourced(Some(msh), n - 2, default)

C24_FallbackWhenAbsentOrEmpty ==
    IsExtraction =>
        LET c == last.arg
            parsed_data == last.ret
        IN  /\ parsed_data.sending_application
                   = HeaderSourced(c.msh, 3, T("ORDER_SYSTEM"))
            /\ parsed_data.sending_facility = HeaderSourced(c.msh, 4, T("HOSPITAL"))
            /\ parsed_data.message_control_id
                   = HeaderSourced(c.msh, 10, T("MSG") \o last.rnd.msg)
            /\ parsed_data.patient_id = Sourced(c.pid, 3, T("UNKNOWN"))
            /\ parsed_data.patient_name = Sourced(c.pid, 5, T("DOE^JOHN"))
            /\ parsed_data.patient_dob = Sourced(c.pid, 7, <<>>)
            /\ parsed_data.patient_sex = Sourced(c.pid, 8, T("U"))
            /\ parsed_data.patient_address = Sourced(c.pid, 11, <<>>)
            /\ parsed_data.patient_phone = Sourced(c.pid, 13, <<>>)
            /\ parsed_data.encounter_id = Sourced(c.pv1, 19, <<>>)

(***************************************************************************)
(* C25.  In order extraction placer_order, filler_order and                *)
(* ordering_provider are each taken from the ORC field when it is present  *)
(* and non-empty, else from the OBR field when that is present and         *)
(* non-empty, else from the fallback (literal default, generated id,       *)
(* empty); an empty ORC value never wins over a non-empty OBR value.       *)
(***************************************************************************)
C25_OrcThenObrThenFallback ==
    IsExtraction =>
        LET c == last.arg
            parsed_data == last.ret
        IN  /\ parsed_data.placer_order
                   = Sourced(c.orc, 2, Sourced(c.obr, 2, T("ORDER123")))
            /\ parsed_data.filler_order
                   = Sourced(c.orc, 3,
                             Sourced(c.obr, 3, T("FILLER") \o last.rnd.filler))
            /\ parsed_data.ordering_provider
                   = Sourced(c.orc, 12, Sourced(c.obr, 16, <<>>))

\* An extraction whose ORC fields 2, 3 and 12 are there and empty, and whose
\* OBR fields hold values, which are the ones extracted.
C25_Witness ==
    /\ IsExtraction
    /\ last.arg.orc # None
    /\ Len(last.arg.orc[1]) >= 12
    /\ last.arg.orc[1][2] = <<>>
    /\ last.arg.orc[1][3] = <<>>
    /\ last.arg.orc[1][12] = <<>>
    /\ last.ret.placer_order = <<"p">>
    /\ last.ret.filler_order = <<"f">>
    /\ last.ret.ordering_provider = <<"v">>

(***************************************************************************)
(* C26.  In result composition the abnormal flag of each observation is    *)
(* determined by the supplied interpretation compared case-insensitively:  *)
(* normal/n gives N, abnormal/a gives A, high/h gives H, low/l gives L,    *)
(* critical/critical high/hh gives HH, critical low/ll gives LL, any other *)
(* string gives N, and a field with no supplied interpretation gives N.    *)
(***************************************************************************)
IsComposition == last.op = "create_result_message"

\* s is the lower-case word w, whatever the case of each letter of s.
SameIgnoringCase(s, w) ==
    /\ Len(s) = Len(w)
    /\ \A i \in 1..Len(w) :
           \/ s[i] = w[i]
           \/ \E k \in 1..26 : LowerCase[k] = w[i] /\ UpperCase[k] = s[i]

IsOneOf(s, words) == \E w \in words : SameIgnoringCase(s, w)

FlagOf(s) ==
    CASE IsOneOf(s, {<<"n", "o", "r", "m", "a", "l">>, <<"n">>}) -> "N"
      [] IsOneOf(s, {<<"a", "b", "n", "o", "r", "m", "a", "l">>, <<"a">>}) -> "A"
      [] IsOneOf(s, {<<"h", "i", "g", "h">>, <<"h">>}) -> "H"
      [] IsOneOf(s, {<<"l", "o", "w">>, <<"l">>}) -> "L"
      [] IsOneOf(s, {<<"c", "r", "i", "t", "i", "c", "a", "l">>,
                     <<"c", "r", "i", "t", "i", "c", "a", "l", " ", "h", "i", "g", "h">>,
                     <<"h", "h">>}) -> "HH"
      [] IsOneOf(s, {<<"c", "r", "i", "t", "i", "c", "a", "l", " ", "l", "o", "w">>,
                     <<"l", "l">>}) -> "LL"
      [] OTHER -> "N"

\* The observation segments of a composed message: all but the segments
\* before the first observation.
ObservationsOf(message, n) ==
    LET segments == SplitOn(message, "CR") IN
    SubSeq(segments, Len(segments) - n + 1, Len(segments))

C26_FlagOfInterpretation ==
    IsComposition =>
        LET a == last.arg
            table == get_observation_fields(a.parsed_data.test_id)
            observations == ObservationsOf(last.ret, Len(table))
        IN  /\ Len(observations) = Len(table)
            /\ \A i \in 1..Len(table) :
                   observations[i] =
                       ObxLine(i, table[i],
                               IF table[i] \in DOMAIN a.observation_values
                               THEN a.observation_values[table[i]] ELSE 0,
                               IF table[i] \in DOMAIN a.observation_interpretations
                               THEN FlagOf(a.observation_interpretations[table[i]])
                               ELSE "N")

\* A composition where the second field alone was given the interpretation
\* "CRITICAL HIGH": it is flagged HH and the first field N.
C26_Witness ==
    /\ IsComposition
    /\ last.arg.parsed_data.test_id = cBMP
    /\ DOMAIN last.arg.observation_interpretations = {"3094-0"}
    /\ last.arg.observation_interpretations["3094-0"] =
           <<"C", "R", "I", "T", "I", "C", "A", "L", " ", "H", "I", "G", "H">>
    /\ ObservationsOf(last.ret, 5)[2] = ObxLine(2, "3094-0", 0, "HH")
    /\ ObservationsOf(last.ret, 5)[1][1] = "OBX"
    /\ ObservationsOf(last.ret, 5)[1][16] = "N"

(***************************************************************************)
(* C27.  A composed result message consists of the segments header,        *)
(* patient, visit, order-control, order-detail, then one observation       *)
(* segment per entry of the test code's table, in table order and with     *)
(* indices 1, 2, ..., n; the visit segment is there if and only if the     *)
(* order's encounter id is non-empty; the segments are joined by carriage  *)
(* return with no trailing separator.                                      *)
(***************************************************************************)
C27_SegmentOrder ==
    IsComposition =>
        LET parsed_data == last.arg.parsed_data
            table == get_observation_fields(parsed_data.test_id)
            segments == SplitOn(last.ret, "CR")
            fixed == <<"MSH", "PID">>
                     \o (IF parsed_data.encounter_id # <<>> THEN <<"PV1">> ELSE <<>>)
                     \o <<"ORC", "OBR">>
        IN  /\ \A i \in 1..Len(segments) : segments[i] # <<>>
            /\ last.ret[Len(last.ret)] # "CR"
            /\ Len(segments) = Len(fixed) + Len(table)
            /\ \A i \in 1..Len(fixed) : segments[i][1] = fixed[i]
            /\ \A i \in 1..Len(table) :
                   /\ segments[Len(fixed) + i][1] = "OBX"
                   /\ segments[Len(fixed) + i][3] = ToString(i)
                   /\ segments[Len(fixed) + i][5] = table[i]

\* A composed message with a visit segment and the five observations of BMP.
C27_Witness ==
    /\ IsComposition
    /\ last.arg.parsed_data.test_id = cBMP
    /\ last.arg.parsed_data.encounter_id = <<"E">>
    /\ Len(SplitOn(last.ret, "CR")) = 10
    /\ SplitOn(last.ret, "CR")[3][1] = "PV1"
    /\ SplitOn(last.ret, "CR")[10][3] = "5"

(***************************************************************************)
(* C28.  One call of send_result makes exactly one connection attempt and  *)
(* at most one write of the framed message; after a timeout or a           *)
(* connection error it returns false without retrying.                     *)
(***************************************************************************)
IsSending == last.op = "send_result"

C28_OneAttempt ==
    IsSending =>
        /\ last.attempts = IF last.pc = "connect" THEN 0 ELSE 1
        /\ Len(last.written) <= 1
        /\ \A i \in 1..Len(last.written) : last.written[i] = wrap_mllp(last.arg)
        /\ last.event \in SendFailures
               => last.pc = "done" /\ last.ret = Some(FALSE)
        /\ last.pc = "done" => last.ret # None

\* A call that connected, wrote the message once, timed out waiting for the
\* answer and returned false.
C28_Witness ==
    /\ IsSending
    /\ last.event = "timeout"
    /\ last.pc = "done"
    /\ last.ret = Some(FALSE)
    /\ last.attempts = 1
    /\ last.written = <<wrap_mllp(last.arg)>>

(***************************************************************************)
(* C29.  No outcome of a single connection (empty read, malformed framing, *)
(* header-parse failure, extraction failure, error while writing the ACK)  *)
(* stops the listener or corrupts the store: a step of one handler leaves  *)
(* every other handler where it was and every stored record as it was, and *)
(* every handler that read data has written its ACK and, when the flush    *)
(* succeeded and its order extracts, has stored the order.                 *)
(***************************************************************************)
Extracts(data) ==
    parse_order_message(unwrap_mllp(data), [msg |-> <<"1">>, filler |-> <<"1">>])
        # None

\* Handler c is past its extraction step, or never got to it.
PastStoring(c) == conn[c].pc \in {"closing", "closed"}

Served(c) ==
    /\ conn[c].data # <<>> => Len(conn[c].written) = 1
    /\ PastStoring(c) /\ conn[c].flushed /\ Extracts(conn[c].data)
           => /\ conn[c].parsed = "ok"
              /\ conn[c].key \in DOMAIN messages
              /\ Rec(conn[c].key).status = "pending"
              /\ Rec(conn[c].key).raw_message = Decode(unwrap_mllp(conn[c].data))

OthersUntouched ==
    \A c \in DOMAIN conn :
        conn'[c] # conn[c]
            => /\ \A d \in DOMAIN conn \ {c} : conn'[d] = conn[d]
               /\ \A k \in DOMAIN messages :
                      /\ k \in DOMAIN messages'
                      /\ heap'[messages'[k]] = heap[messages[k]]

C29_NothingIsFatal ==
    /\ [](\A c \in DOMAIN conn : Served(c))
    /\ [][OthersUntouched]_vars

\* One handler ended on a failed extraction; the other order was
\* acknowledged and stored all the same.
C29_Witness ==
    \E c, e \in DOMAIN conn :
        /\ conn[c].pc = "closed" /\ conn[c].parsed = "fail"
        /\ conn[e].pc = "closed" /\ conn[e].parsed = "ok"
        /\ Len(conn[e].written) = 1
        /\ conn[e].key \in DOMAIN messages

(***************************************************************************)
(* C30.  A minimal valid order (header, patient, order-control,            *)
(* order-detail with test code BMP) fed into the ingest path yields one    *)
(* ACK and exactly one new pending record whose test id is BMP; a result   *)
(* composed for that record with a value for field 2345-7 alone has one    *)
(* observation segment per BMP table entry (five), each with flag N.       *)
(***************************************************************************)
IsObservation(segment) == segment # <<>> /\ segment[1] = "OBX"

BmpFieldIds == <<"2345-7", "3094-0", "2160-0", "2951-2", "2823-3">>

C30_MinimalOrderEndToEnd ==
    /\ \A c \in DOMAIN conn :
           conn[c].data = MinimalOrder /\ conn[c].flushed /\ PastStoring(c)
               => /\ conn[c].written =
                         <<wrap_mllp(AckMessage([base_type |-> <<"R">>,
                                                 msg_control_id |-> <<"7">>]))>>
                  /\ conn[c].key \in DOMAIN messages
                  /\ Rec(conn[c].key).status = "pending"
                  /\ Rec(conn[c].key).parsed_data.test_id = cBMP
                  /\ \A d \in DOMAIN conn : conn[d].key = conn[c].key => d = c
    /\ Cardinality(DOMAIN messages)
           = Cardinality({c \in DOMAIN conn : conn[c].flushed /\ PastStoring(c)})
    /\ last.op = "create_result_message"
           => LET observations ==
                      SelectSeq(SplitOn(last.ret, "CR"), IsObservation)
              IN  /\ Len(observations) = 5
                  /\ \A i \in 1..5 :
                         /\ observations[i][5] = BmpFieldIds[i]
                         /\ observations[i][16] = "N"

\* A minimal order was acknowledged and stored, and a result with five
\* observations was composed for it.
C30_Witness ==
    /\ \E c \in DOMAIN conn :
           /\ conn[c].pc = "closed"
           /\ conn[c].data = MinimalOrder
           /\ Len(conn[c].written) = 1
           /\ last.op = "create_result_message"
           /\ last.id = conn[c].key
           /\ Rec(conn[c].key).parsed_data.test_id = cBMP
    /\ Len(SelectSeq(SplitOn(last.ret, "CR"), IsObservation)) = 5

(***************************************************************************)
(* C31.  For one order id, under any interleaving of concurrent            *)
(* process-submit requests for that id, at most one result is sent: while  *)
(* one request's send for the id is in flight, no other request for the    *)
(* same id is sending.                                                     *)
(***************************************************************************)
Sending(r) == req[r].pc = "sending"

C31_OneSendPerOrder ==
    \A r1, r2 \in DOMAIN req :
        Sending(r1) /\ Sending(r2) /\ req[r1].message_id = req[r2].message_id
            => r1 = r2

(***************************************************************************)
(* C32.  A process-submit for an id that is absent from the store, or      *)
(* whose record is not pending when it is read, makes no send attempt and  *)
(* no update_status call, and leaves the store unchanged: a request starts *)
(* to send only for a pending record, and the step that answers "not       *)
(* found" or "already processed" changes neither the requests nor the      *)
(* store.                                                                  *)
(***************************************************************************)
StartsSending(r) == req[r].pc = "idle" /\ req'[r].pc = "sending"

Refuses == flash' # flash /\ flash'[1] \in {"not_found", "already"}

C32_NoSendUnlessPending ==
    [][/\ \A r \in DOMAIN req :
              StartsSending(r)
                  => /\ req'[r].message_id \in DOMAIN messages
                     /\ Rec(req'[r].message_id).status = "pending"
       /\ Refuses => /\ req' = req
                     /\ messages' = messages
                     /\ heap' = heap]_vars

\* A submit for a record that was no longer pending was answered "already
\* processed", and no request is sending.
C32_Witness ==
    /\ flash[1] = "already"
    /\ flash[2] \in DOMAIN messages
    /\ Rec(flash[2]).status # "pending"
    /\ \A r \in DOMAIN req : ~Sending(r)

(***************************************************************************)
(* C33.  In the standalone analyzer, for each connection with non-empty    *)
(* input the ACK is written before any result is generated, at most one    *)
(* downstream send is attempted per connection, none is attempted when the *)
(* order's test id is unsupported or extraction fails, and the inbound     *)
(* connection is closed only after the send attempt (if any) has finished. *)
(***************************************************************************)
\* The test id of an order that extracts is one the standalone analyzer has
\* results for.
Supported(data) ==
    /\ Extracts(data)
    /\ Strip(parse_order_message(unwrap_mllp(data),
                                 [msg |-> <<"1">>, filler |-> <<"1">>]).test_id)
           \in {<<"C", "B", "C">>, cBMP, <<"G", "L", "U", "C", "O", "S", "E">>,
                <<"1", "5", "5", "4", "-", "5">>,
                <<"2", "6", "6", "0", "4", "0", "0", "7">>}

=============================================================================
